---- MODULE Spec2Model ----
(***************************************************************************)
(* A model of the MIPS-I instruction-level simulator (src/src/sim.rs,      *)
(* src/src/instr.rs, src/src/shell.rs).                                    *)
(*                                                                         *)
(* Number representation.  TLC integers are 32-bit signed, so a Rust u32   *)
(* (or the bit pattern of an i32) is held as a pair <<hi, lo>> of 16-bit   *)
(* halves, and a 64-bit usize as four 16-bit limbs <<l3, l2, l1, l0>>.     *)
(* All arithmetic keeps the 32-bit width of the source and reports the     *)
(* overflow that a build with overflow checks turns into a panic.          *)
(***************************************************************************)
EXTENDS Integers, Sequences, FiniteSets, TLC

VARIABLES
  curr_state,       \* MipsComputer.curr_state : CpuState
  next_state,       \* MipsComputer.next_state : CpuState
  run_bit,          \* MipsComputer.run_bit
  instr_cnt,        \* MipsComputer.instr_cnt
  memory,           \* MipsComputer.memory : the byte buffers of the 5 regions
  overflow_checks,  \* build profile: TRUE = arithmetic overflow panics (debug)
  proc,             \* where the process is: prompt, inside run, inside go, dead
  run_left,         \* iterations left of the for loop of run()
  run_obs,          \* the call of run()/go() in progress or just returned
  cmds,             \* number of command lines read so far
  last              \* the last call of cycle(): what it fetched and the state before

vars == <<curr_state, next_state, run_bit, instr_cnt, memory, overflow_checks,
          proc, run_left, run_obs, cmds, last>>

-----------------------------------------------------------------------------
(* 16-bit halves and 32-bit words *)

H16 == 2 ^ 16
H15 == 2 ^ 15

W(hi, lo) == <<hi, lo>>
Zero32 == W(0, 0)
Small(n) == W(0, n)                  \* a constant 0 <= n < 65536 as u32

IsNeg(w) == w[1] >= H15              \* bit 31: the sign of the word read as i32

\* u32 + u32: the wrapped sum and whether the u32 addition overflows
u32_add(a, b) ==
  LET lo == a[2] + b[2]
      hi == a[1] + b[1] + (lo \div H16)
  IN  [v |-> W(hi % H16, lo % H16), ovf |-> hi >= H16]

\* two's complement negation of a bit pattern
Neg32(a) == u32_add(W(65535 - a[1], 65535 - a[2]), Small(1)).v

\* i32 + i32 on bit patterns: the wrapped sum and whether the i32 addition overflows
i32_add(a, b) ==
  LET s == u32_add(a, b).v
  IN  [v |-> s, ovf |-> (IsNeg(a) = IsNeg(b)) /\ (IsNeg(s) # IsNeg(a))]

\* i32 - i32 on bit patterns
i32_sub(a, b) ==
  LET s == u32_add(a, Neg32(b)).v
  IN  [v |-> s, ovf |-> (IsNeg(a) # IsNeg(b)) /\ (IsNeg(s) # IsNeg(a))]

u32_lt(a, b) == (a[1] < b[1]) \/ (a[1] = b[1] /\ a[2] < b[2])

\* a signed comparison that takes its operands for unsigned
i32_lt_unsigned(a, b) == (a[1] < b[1]) \/ (a[1] = b[1] /\ a[2] < b[2])

i32_lt(a, b) ==
  IF IsNeg(a) # IsNeg(b) THEN IsNeg(a) ELSE u32_lt(a, b)

AndTab == [x \in 0..1 |-> [y \in 0..1 |-> x * y]]
OrTab  == [x \in 0..1 |-> [y \in 0..1 |-> IF x + y > 0 THEN 1 ELSE 0]]
XorTab == [x \in 0..1 |-> [y \in 0..1 |-> (x + y) % 2]]

RECURSIVE bits16(_, _, _, _)
bits16(tab, a, b, n) ==
  IF n = 0 THEN 0
  ELSE tab[a % 2][b % 2] + 2 * bits16(tab, a \div 2, b \div 2, n - 1)

u32_and(a, b) == W(bits16(AndTab, a[1], b[1], 16), bits16(AndTab, a[2], b[2], 16))
u32_or(a, b)  == W(bits16(OrTab, a[1], b[1], 16), bits16(OrTab, a[2], b[2], 16))
u32_xor(a, b) == W(bits16(XorTab, a[1], b[1], 16), bits16(XorTab, a[2], b[2], 16))
u32_not(a)    == W(65535 - a[1], 65535 - a[2])

\* a shift whose count is taken modulo 16
u32_shl_short(a, n) ==
  W((a[1] * (2 ^ (n % 16)) + (a[2] * (2 ^ (n % 16))) \div H16) % H16,
    (a[2] * (2 ^ (n % 16))) % H16)

\* u32 << n, 0 <= n <= 31
u32_shl(a, n) ==
  IF n >= 16 THEN W((a[2] * (2 ^ (n - 16))) % H16, 0)
  ELSE W((a[1] * (2 ^ n) + (a[2] * (2 ^ n)) \div H16) % H16, (a[2] * (2 ^ n)) % H16)

\* u32 >> n (logical), 0 <= n <= 31
u32_shr(a, n) ==
  IF n >= 16 THEN W(0, a[1] \div (2 ^ (n - 16)))
  ELSE W(a[1] \div (2 ^ n), (a[1] % (2 ^ n)) * (2 ^ (16 - n)) + a[2] \div (2 ^ n))

\* i32 >> n (arithmetic), 0 <= n <= 31
i32_shr(a, n) ==
  IF IsNeg(a) THEN u32_not(u32_shr(u32_not(a), n)) ELSE u32_shr(a, n)

\* the shift back done on the u32, without the cast to i32: a zero extension
zero_extend32(data, size) == u32_shr(u32_shl(data, 32 - size), 32 - size)

\* ((data << (32 - size)) as i32) >> (32 - size)
sign_extend32(data, size) == i32_shr(u32_shl(data, 32 - size), 32 - size)

-----------------------------------------------------------------------------
(* usize (64-bit) addresses *)

u32_as_usize(w) == <<0, 0, w[1], w[2]>>
i32_as_usize(w) == IF IsNeg(w) THEN <<65535, 65535, w[1], w[2]>> ELSE <<0, 0, w[1], w[2]>>

usize_lt(a, b) ==
  \E i \in 1..4 : a[i] < b[i] /\ \A j \in 1..(i - 1) : a[j] = b[j]

\* a + n for a small n; no address of the model reaches the wrap of usize
usize_add(a, n) ==
  LET l0 == a[4] + (n % H16)
      l1 == a[3] + (n \div H16) + (l0 \div H16)
      l2 == a[2] + (l1 \div H16)
      l3 == a[1] + (l2 \div H16)
  IN  <<l3 % H16, l2 % H16, l1 % H16, l0 % H16>>

\* a - b as an integer, for b <= a < b + 2^31
usize_diff(a, b) == (a[3] - b[3]) * H16 + (a[4] - b[4])

-----------------------------------------------------------------------------
(* Option<T> and the outcome of an indexing that may be out of bounds *)

None == [k |-> "None", v |-> Zero32]
Some(x) == [k |-> "Some", v |-> x]
Panic == [k |-> "Panic", v |-> Zero32]

-----------------------------------------------------------------------------
(* MemRegion: start and size are fixed at construction; the variable       *)
(* memory[i] holds region i's buffer as the map of its non-zero bytes.     *)

MIPS_REGS == 32

MEM_DATA_START  == <<0, 0, 4096, 0>>      \* 0x10000000
MEM_DATA_SIZE   == 1048576                \* 0x00100000
MEM_TEXT_START  == <<0, 0, 64, 0>>        \* 0x00400000
MEM_TEXT_SIZE   == 1048576
MEM_STACK_START == <<0, 0, 32752, 0>>     \* 0x7ff00000
MEM_STACK_SIZE  == 1048576
MEM_KDATA_START == <<0, 0, 36864, 0>>     \* 0x90000000
MEM_KDATA_SIZE  == 1048576
MEM_KTEXT_START == <<0, 0, 32768, 0>>     \* 0x80000000
MEM_KTEXT_SIZE  == 1048576

\* the five regions in the order MipsComputer::new lists them
Regions ==
  << [start |-> MEM_DATA_START,  size |-> MEM_DATA_SIZE],
     [start |-> MEM_TEXT_START,  size |-> MEM_TEXT_SIZE],
     [start |-> MEM_STACK_START, size |-> MEM_STACK_SIZE],
     [start |-> MEM_KDATA_START, size |-> MEM_KDATA_SIZE],
     [start |-> MEM_KTEXT_START, size |-> MEM_KTEXT_SIZE] >>

NRegions == Len(Regions)

\* vec![0; size]
EmptyMem == [o \in {} |-> 0]

\* self.mem[off], for off < size
Byte(mem, off) == IF off \in DOMAIN mem THEN mem[off] ELSE 0

\* self.mem[off] = b, for off < size
SetByte(mem, off, b) ==
  [o \in ((DOMAIN mem \ {off}) \cup (IF b = 0 THEN {} ELSE {off})) |->
      IF o = off THEN b ELSE mem[o]]

contains_address(r, address) ==
  /\ ~usize_lt(address, Regions[r].start)
  /\ usize_lt(address, usize_add(Regions[r].start, Regions[r].size))

\* read_32 assembling the bytes most significant first
read_32_big_endian(r, mem, address) ==
  IF ~contains_address(r, address) THEN None
  ELSE LET offset == usize_diff(address, Regions[r].start)
       IN  IF offset + 3 >= Regions[r].size THEN Panic
           ELSE Some(W(Byte(mem, offset) * 256 + Byte(mem, offset + 1),
                       Byte(mem, offset + 2) * 256 + Byte(mem, offset + 3)))

read_32(r, mem, address) ==
  IF ~contains_address(r, address) THEN None
  ELSE LET offset == usize_diff(address, Regions[r].start)
       IN  IF offset + 3 >= Regions[r].size THEN Panic
           ELSE Some(W(Byte(mem, offset + 3) * 256 + Byte(mem, offset + 2),
                       Byte(mem, offset + 1) * 256 + Byte(mem, offset)))

read_8(r, mem, address) ==
  IF ~contains_address(r, address) THEN None
  ELSE LET offset == usize_diff(address, Regions[r].start)
       IN  Some(Byte(mem, offset))

read_16(r, mem, address) ==
  IF ~contains_address(r, address) THEN None
  ELSE LET offset == usize_diff(address, Regions[r].start)
       IN  IF offset + 1 >= Regions[r].size THEN Panic
           ELSE Some(Byte(mem, offset + 1) * 256 + Byte(mem, offset))

\* the result of a write: ok = the bool returned, panic = index out of bounds
write_32(r, mem, address, value) ==
  IF ~contains_address(r, address) THEN [ok |-> FALSE, panic |-> FALSE, mem |-> mem]
  ELSE LET offset == usize_diff(address, Regions[r].start)
           m3 == SetByte(mem, offset + 3, value[1] \div 256)
           m2 == SetByte(m3, offset + 2, value[1] % 256)
           m1 == SetByte(m2, offset + 1, value[2] \div 256)
           m0 == SetByte(m1, offset, value[2] % 256)
       IN  IF offset + 3 >= Regions[r].size
           THEN [ok |-> FALSE, panic |-> TRUE, mem |-> mem]
           ELSE [ok |-> TRUE, panic |-> FALSE, mem |-> m0]

RECURSIVE write_bytes_from(_, _, _, _, _)
write_bytes_from(r, mem, offset, bytes, idx) ==
  IF idx > Len(bytes) THEN [ok |-> TRUE, panic |-> FALSE, mem |-> mem]
  ELSE IF offset + (idx - 1) >= Regions[r].size
       THEN [ok |-> FALSE, panic |-> TRUE, mem |-> mem]
       ELSE write_bytes_from(r, SetByte(mem, offset + (idx - 1), bytes[idx]),
                             offset, bytes, idx + 1)

write_bytes(r, mem, address, bytes) ==
  IF ~contains_address(r, address) THEN [ok |-> FALSE, panic |-> FALSE, mem |-> mem]
  ELSE write_bytes_from(r, mem, usize_diff(address, Regions[r].start), bytes, 1)

-----------------------------------------------------------------------------
(* MipsComputer: memory dispatch, a linear scan over the regions *)

RECURSIVE mem_read_32_from(_, _, _)
mem_read_32_from(mems, address, r) ==
  IF r > NRegions THEN None
  ELSE LET d == read_32(r, mems[r], address)
       IN  IF d.k = "None" THEN mem_read_32_from(mems, address, r + 1) ELSE d

mem_read_32(mems, address) == mem_read_32_from(mems, address, 1)

RECURSIVE mem_read_16_from(_, _, _)
mem_read_16_from(mems, address, r) ==
  IF r > NRegions THEN None
  ELSE LET d == read_16(r, mems[r], address)
       IN  IF d.k = "None" THEN mem_read_16_from(mems, address, r + 1) ELSE d

mem_read_16(mems, address) == mem_read_16_from(mems, address, 1)

RECURSIVE mem_read_8_from(_, _, _)
mem_read_8_from(mems, address, r) ==
  IF r > NRegions THEN None
  ELSE LET d == read_8(r, mems[r], address)
       IN  IF d.k = "None" THEN mem_read_8_from(mems, address, r + 1) ELSE d

mem_read_8(mems, address) == mem_read_8_from(mems, address, 1)

\* the result: ok, panic, and the five buffers after the write
RECURSIVE mem_write_32_from(_, _, _, _)
mem_write_32_from(mems, address, value, r) ==
  IF r > NRegions THEN [ok |-> FALSE, panic |-> FALSE, mems |-> mems]
  ELSE LET w == write_32(r, mems[r], address, value)
       IN  IF w.panic THEN [ok |-> FALSE, panic |-> TRUE, mems |-> mems]
           ELSE IF w.ok THEN [ok |-> TRUE, panic |-> FALSE,
                              mems |-> [mems EXCEPT ![r] = w.mem]]
           ELSE mem_write_32_from(mems, address, value, r + 1)

mem_write_32(mems, address, value) == mem_write_32_from(mems, address, value, 1)

RECURSIVE mem_write_bytes_from(_, _, _, _)
mem_write_bytes_from(mems, address, bytes, r) ==
  IF r > NRegions THEN [ok |-> FALSE, panic |-> FALSE, mems |-> mems]
  ELSE LET w == write_bytes(r, mems[r], address, bytes)
       IN  \* the bytes stored before the index went out of bounds stay stored
           IF w.panic THEN [ok |-> FALSE, panic |-> TRUE,
                            mems |-> [mems EXCEPT ![r] = w.mem]]
           ELSE IF w.ok THEN [ok |-> TRUE, panic |-> FALSE,
                              mems |-> [mems EXCEPT ![r] = w.mem]]
           ELSE mem_write_bytes_from(mems, address, bytes, r + 1)

mem_write_bytes(mems, address, bytes) == mem_write_bytes_from(mems, address, bytes, 1)

-----------------------------------------------------------------------------
(* instr.rs: the decoder.  A decoded instruction is a record; a word the   *)
(* decoder panics on gives the record with panic = TRUE.                   *)

Instr(form, op, opcode, rs, rt, rd, shamt, funct, imm, target) ==
  [panic |-> FALSE, form |-> form, op |-> op, opcode |-> opcode, rs |-> rs, rt |-> rt,
   rd |-> rd, shamt |-> shamt, funct |-> funct, imm |-> imm, target |-> target]

DecodePanic ==
  [panic |-> TRUE, form |-> "none", op |-> "none", opcode |-> 0, rs |-> 0, rt |-> 0,
   rd |-> 0, shamt |-> 0, funct |-> 0, imm |-> Zero32, target |-> Zero32]

\* (instr & mask) >> shift as a small integer (every field is below 2^16)
Field(instr, mask, shift) == u32_shr(u32_and(instr, mask), shift)[2]

\* the rs mask one bit short: 0x1E00000
RS_MASK_short == W(480, 0)

OPCODE_MASK == W(64512, 0)       \* 0xFC000000
TARGET_MASK == W(1023, 65535)    \* 0x3FFFFFF
RS_MASK     == W(992, 0)         \* 0x3E00000
RT_MASK     == W(31, 0)          \* 0x1F0000
IMM_MASK    == W(0, 65535)       \* 0xFFFF
RD_MASK     == W(0, 63488)       \* 0xF800
SHAMT_MASK  == W(0, 1984)        \* 0x7C0
FUNCT_MASK  == W(0, 63)          \* 0x3F

extract_opcode(instr) == Field(instr, OPCODE_MASK, 26)

parse_jump_instr(instr, op) ==
  Instr("J", op, extract_opcode(instr), 0, 0, 0, 0, 0, Zero32, u32_and(instr, TARGET_MASK))

parse_immediate_instr(instr, op) ==
  LET rs == Field(instr, RS_MASK, 21)
      rt == Field(instr, RT_MASK, 16)
      imm == u32_and(instr, IMM_MASK)
  IN  Instr("I", op, extract_opcode(instr), rs, rt, 0, 0, 0, imm, Zero32)

parse_immediate_instr_and_op(instr) ==
  LET rs == Field(instr, RS_MASK, 21)
      rt == Field(instr, RT_MASK, 16)
      imm == u32_and(instr, IMM_MASK)
      op == CASE rt = 0 -> "BLTZ"
              [] rt = 1 -> "BGEZ"
              [] rt = 32 -> "BLTZAL"      \* 0x20
              [] rt = 33 -> "BGEZAL"      \* 0x21
              [] OTHER -> "none"
  IN  IF op = "none" THEN DecodePanic
      ELSE Instr("I", op, extract_opcode(instr), rs, rt, 0, 0, 0, imm, Zero32)

parse_register_instr(instr) ==
  LET rs == Field(instr, RS_MASK, 21)
      rt == Field(instr, RT_MASK, 16)
      rd == Field(instr, RD_MASK, 11)
      shamt == Field(instr, SHAMT_MASK, 6)
      funct == u32_and(instr, FUNCT_MASK)[2]
      op == CASE funct = 0 -> "SLL"       \* 0x0
              [] funct = 2 -> "SRL"
              [] funct = 3 -> "SRA"
              [] funct = 4 -> "SLLV"
              [] funct = 6 -> "SRLV"
              [] funct = 7 -> "SRAV"
              [] funct = 8 -> "JR"
              [] funct = 9 -> "JALR"
              [] funct = 32 -> "ADD"      \* 0x20
              [] funct = 33 -> "ADDU"     \* 0x21
              [] funct = 34 -> "SUB"      \* 0x22
              [] funct = 35 -> "SUBU"     \* 0x23
              [] funct = 36 -> "AND"      \* 0x24
              [] funct = 37 -> "OR"       \* 0x25
              [] funct = 38 -> "XOR"      \* 0x26
              [] funct = 39 -> "NOR"      \* 0x27
              [] funct = 42 -> "SLT"      \* 0x2A
              [] funct = 43 -> "SLTU"     \* 0x2B
              [] funct = 24 -> "MULT"     \* 0x18
              [] funct = 25 -> "MULTU"    \* 0x19
              [] funct = 26 -> "DIV"      \* 0x1A
              [] funct = 27 -> "DIVU"     \* 0x1B
              [] funct = 16 -> "MFHI"     \* 0x10
              [] funct = 18 -> "MFLO"     \* 0x12
              [] funct = 17 -> "MTHI"     \* 0x11
              [] funct = 19 -> "MTLO"     \* 0x13
              [] funct = 12 -> "SYSCALL"  \* 0xC
              [] OTHER -> "none"
  IN  IF extract_opcode(instr) # 0 \/ op = "none" THEN DecodePanic
      ELSE Instr("R", op, 0, rs, rt, rd, shamt, funct, Zero32, Zero32)

parse_instr(instr) ==
  LET opcode == extract_opcode(instr)
  IN  CASE opcode = 2 -> parse_jump_instr(instr, "J")
        [] opcode = 3 -> parse_jump_instr(instr, "JAL")
        [] opcode = 4 -> parse_immediate_instr(instr, "BEQ")
        [] opcode = 5 -> parse_immediate_instr(instr, "BNE")
        [] opcode = 6 -> parse_immediate_instr(instr, "BLEZ")
        [] opcode = 7 -> parse_immediate_instr(instr, "BGTZ")
        [] opcode = 8 -> parse_immediate_instr(instr, "ADDI")
        [] opcode = 9 -> parse_immediate_instr(instr, "ADDIU")
        [] opcode = 10 -> parse_immediate_instr(instr, "SLTI")     \* 0xA
        [] opcode = 11 -> parse_immediate_instr(instr, "SLTIU")    \* 0xB
        [] opcode = 12 -> parse_immediate_instr(instr, "ANDI")     \* 0xC
        [] opcode = 13 -> parse_immediate_instr(instr, "ORI")      \* 0xD
        [] opcode = 14 -> parse_immediate_instr(instr, "XORI")     \* 0xE
        [] opcode = 15 -> parse_immediate_instr(instr, "LUI")      \* 0xF
        [] opcode = 32 -> parse_immediate_instr(instr, "LB")       \* 0x20
        [] opcode = 33 -> parse_immediate_instr(instr, "LH")       \* 0x21
        [] opcode = 35 -> parse_immediate_instr(instr, "LW")       \* 0x23
        [] opcode = 36 -> parse_immediate_instr(instr, "LBU")      \* 0x24
        [] opcode = 37 -> parse_immediate_instr(instr, "LHU")      \* 0x25
        [] opcode = 40 -> parse_immediate_instr(instr, "SB")       \* 0x28
        [] opcode = 41 -> parse_immediate_instr(instr, "SH")       \* 0x29
        [] opcode = 43 -> parse_immediate_instr(instr, "SW")       \* 0x2B
        [] opcode = 1 -> parse_immediate_instr_and_op(instr)
        [] opcode = 0 -> parse_register_instr(instr)
        [] OTHER -> DecodePanic

-----------------------------------------------------------------------------
(* 64-bit products and 32-bit quotients, on 16-bit limbs *)

\* x * y for 16-bit x, y as [hi, lo] 16-bit halves
mul16(x, y) ==
  LET t1 == x * (y \div 256)
      t2 == x * (y % 256)
      low == (t1 % 256) * 256 + t2
  IN  [hi |-> (t1 \div 256) + (low \div H16), lo |-> low % H16]

\* the u64 product of two u32, as limbs <<l3, l2, l1, l0>>
u64_mul(a, b) ==
  LET p00 == mul16(a[2], b[2])
      p01 == mul16(a[2], b[1])
      p10 == mul16(a[1], b[2])
      p11 == mul16(a[1], b[1])
      s1 == p00.hi + p01.lo + p10.lo
      s2 == p01.hi + p10.hi + p11.lo + (s1 \div H16)
      s3 == p11.hi + (s2 \div H16)
  IN  <<s3 % H16, s2 % H16, s1 % H16, p00.lo>>

\* a / b for a divisor 0 < b < 2^16: long division of the four bytes of a
div_small(a, b) ==
  LET d3 == a[1] \div 256
      d2 == a[1] % 256
      d1 == a[2] \div 256
      d0 == a[2] % 256
      r3 == d3 % b
      n2 == r3 * 256 + d2
      r2 == n2 % b
      n1 == r2 * 256 + d1
      r1 == n1 % b
      n0 == r1 * 256 + d0
  IN  u32_add(u32_add(u32_shl(Small(d3 \div b), 24), u32_shl(Small(n2 \div b), 16)).v,
              u32_add(u32_shl(Small(n1 \div b), 8), Small(n0 \div b)).v).v

\* a / b for a divisor b >= 2^16: the quotient is below 2^16 and is built from
\* its top bit down, q being the bits chosen so far
RECURSIVE div_large(_, _, _, _)
div_large(a, b, q, bit) ==
  IF bit < 0 THEN Small(q)
  ELSE IF usize_lt(u32_as_usize(a), u64_mul(Small(q + 2 ^ bit), b))
       THEN div_large(a, b, q, bit - 1)
       ELSE div_large(a, b, q + 2 ^ bit, bit - 1)

\* a / b for u32 a and b # 0
u32_div(a, b) == IF b[1] = 0 THEN div_small(a, b[2]) ELSE div_large(a, b, 0, 15)

-----------------------------------------------------------------------------
(* The semantic handlers.  A handler works on the record c of the fields   *)
(* of MipsComputer it can touch and yields c after the handler, the bool   *)
(* it returns (incr_pc) and whether it panicked on the way.                *)

Ret(c, incr_pc) == [c |-> c, incr_pc |-> incr_pc, panic |-> FALSE]
\* a failure the handler swallows: it returns true and nothing else happens
Abort_swallowed(c) == [c |-> c, incr_pc |-> TRUE, panic |-> FALSE]
Abort(c) == [c |-> c, incr_pc |-> FALSE, panic |-> TRUE]

\* an arithmetic result r = [v, ovf] panics in a build with overflow checks
Traps(r) == overflow_checks /\ r.ovf

R(c, i) == c.curr_state.regs[i]
\* the store a handler must not make: into the snapshot commit overwrites
SetCurrReg(c, i, v) == [c EXCEPT !.curr_state.regs[i] = v]
SetNextReg(c, i, v) == [c EXCEPT !.next_state.regs[i] = v]
SetNextPc(c, v) == [c EXCEPT !.next_state.pc = v]

TOP_BYTE_MASK == W(61440, 0)     \* 0xF0000000

\* the J-form handler jumping to target << 2 alone, the top bits of pc dropped
process_jtype_no_top(c, instr) ==
  LET jumped == SetNextPc(c, u32_shl(instr.target, 2))
      link == u32_add(c.curr_state.pc, Small(4))
  IN  CASE instr.op = "J" -> Ret(jumped, FALSE)
        [] instr.op = "JAL" ->
             IF Traps(link) THEN Abort(jumped)
             ELSE Ret(SetNextReg(jumped, 31, link.v), FALSE)

process_jtype_instruction(c, instr) ==
  LET top_byte == u32_and(c.curr_state.pc, TOP_BYTE_MASK)
      jumped == SetNextPc(c, u32_or(top_byte, u32_shl(instr.target, 2)))
      link == u32_add(c.curr_state.pc, Small(4))
  IN  CASE instr.op = "J" -> Ret(jumped, FALSE)
        [] instr.op = "JAL" ->
             IF Traps(link) THEN Abort(jumped)
             ELSE Ret(SetNextReg(jumped, 31, link.v), FALSE)

\* a branch arm that adds the sign-extended immediate without the shift by 2
branch_arm_unshifted(c, instr, taken, links) ==
  LET ext_off == sign_extend32(instr.imm, 16)
      new_addr == i32_add(c.curr_state.pc, ext_off)
      link == u32_add(c.curr_state.pc, Small(4))
      c1 == IF links THEN [c EXCEPT !.curr_state.regs[31] = link.v] ELSE c
  IN  IF Traps(new_addr) THEN Abort(c)
      ELSE IF links /\ Traps(link) THEN Abort(c)
      ELSE IF taken THEN Ret(SetNextPc(c1, new_addr.v), FALSE)
      ELSE Ret(c1, TRUE)

\* one arm of a conditional branch: taken is the arm's condition on curr_state,
\* links tells the -AL arms, which store pc + 4 in curr_state.regs[31]
branch_arm(c, instr, taken, links) ==
  LET ext_off == sign_extend32(u32_shl(instr.imm, 2), 18)
      new_addr == i32_add(c.curr_state.pc, ext_off)
      link == u32_add(c.curr_state.pc, Small(4))
      c1 == IF links THEN [c EXCEPT !.curr_state.regs[31] = link.v] ELSE c
  IN  IF Traps(new_addr) THEN Abort(c)
      ELSE IF links /\ Traps(link) THEN Abort(c)
      ELSE IF taken THEN Ret(SetNextPc(c1, new_addr.v), FALSE)
      ELSE Ret(c1, TRUE)

\* the effective address of a load or store: regs[rs] as i32 + sign-extended imm
effective_address(c, instr) == i32_add(R(c, instr.rs), sign_extend32(instr.imm, 16))

load_arm(c, instr, got, value) ==
  IF Traps(effective_address(c, instr)) THEN Abort(c)
  ELSE IF got.k # "Some" THEN Abort(c)
  ELSE Ret(SetNextReg(c, instr.rt, value), TRUE)

\* a store that does not assert `written`: a refused write commits
store_arm_unasserted(c, instr, value) ==
  LET address == effective_address(c, instr)
      w == mem_write_32(c.memory, i32_as_usize(address.v), value)
  IN  IF Traps(address) THEN Abort(c)
      ELSE IF w.panic THEN Abort(c)
      ELSE Ret([c EXCEPT !.memory = w.mems], TRUE)

store_arm(c, instr, value) ==
  LET address == effective_address(c, instr)
      w == mem_write_32(c.memory, i32_as_usize(address.v), value)
  IN  IF Traps(address) THEN Abort(c)
      ELSE IF w.panic \/ ~w.ok THEN Abort(c)
      ELSE Ret([c EXCEPT !.memory = w.mems], TRUE)

process_itype_instruction(c, instr) ==
  LET op == instr.op
      rs == R(c, instr.rs)
      rt == R(c, instr.rt)
      imm == instr.imm
      signed_imm == sign_extend32(imm, 16)
      address == i32_as_usize(effective_address(c, instr).v)
  IN  CASE op = "BEQ" -> branch_arm(c, instr, rs = rt, FALSE)
        [] op = "BNE" -> branch_arm(c, instr, rs # rt, FALSE)
        [] op = "BLEZ" -> branch_arm(c, instr, IsNeg(rs) \/ rs = Zero32, FALSE)
        [] op = "BGEZ" -> branch_arm(c, instr, ~IsNeg(rs), FALSE)
        [] op = "BGTZ" -> branch_arm(c, instr, ~IsNeg(rs) /\ rs # Zero32, FALSE)
        [] op = "BLTZ" -> branch_arm(c, instr, IsNeg(rs), FALSE)
        [] op = "BLTZAL" -> branch_arm(c, instr, IsNeg(rs), TRUE)
        [] op = "BGEZAL" -> branch_arm(c, instr, ~IsNeg(rs), TRUE)
        [] op \in {"ADDI", "ADDIU"} ->
             LET sum == i32_add(rs, signed_imm)
             IN  IF Traps(sum) THEN Abort(c) ELSE Ret(SetNextReg(c, instr.rt, sum.v), TRUE)
        [] op = "SLTI" ->
             Ret(SetNextReg(c, instr.rt, IF i32_lt(rs, signed_imm) THEN Small(1) ELSE Zero32), TRUE)
        [] op = "SLTIU" ->
             Ret(SetNextReg(c, instr.rt, IF u32_lt(rs, signed_imm) THEN Small(1) ELSE Zero32), TRUE)
        [] op = "ANDI" -> Ret(SetNextReg(c, instr.rt, u32_and(rs, imm)), TRUE)
        [] op = "ORI" -> Ret(SetNextReg(c, instr.rt, u32_or(rs, imm)), TRUE)
        [] op = "XORI" -> Ret(SetNextReg(c, instr.rt, u32_xor(rs, imm)), TRUE)
        [] op = "LUI" -> Ret(SetNextReg(c, instr.rt, u32_shl(imm, 16)), TRUE)
        [] op = "LB" ->
             LET byte == mem_read_8(c.memory, address)
             IN  load_arm(c, instr, byte, sign_extend32(Small(byte.v), 8))
        [] op = "LH" ->
             LET halfword == mem_read_16(c.memory, address)
             IN  load_arm(c, instr, halfword, sign_extend32(Small(halfword.v), 16))
        [] op = "LW" ->
             LET word == mem_read_32(c.memory, address)
             IN  load_arm(c, instr, word, word.v)
        [] op = "LBU" ->
             LET byte == mem_read_8(c.memory, address)
             IN  load_arm(c, instr, byte, Small(byte.v))
        [] op = "LHU" ->
             LET halfword == mem_read_16(c.memory, address)
             IN  load_arm(c, instr, halfword, Small(halfword.v))
        [] op = "SB" -> store_arm(c, instr, u32_and(rt, Small(255)))
        [] op = "SH" -> store_arm(c, instr, u32_and(rt, Small(65535)))
        [] op = "SW" -> store_arm(c, instr, rt)

SHIFT_MASK == Small(31)          \* 0x1F

process_rtype_instruction(c, instr) ==
  LET op == instr.op
      rs == R(c, instr.rs)
      rt == R(c, instr.rt)
      rd == instr.rd
      shift == u32_and(rs, SHIFT_MASK)[2]
      one == Small(1)
  IN  CASE op = "SLL" -> Ret(SetNextReg(c, rd, u32_shl(rt, instr.shamt)), TRUE)
        [] op = "SRL" -> Ret(SetNextReg(c, rd, u32_shr(rt, instr.shamt)), TRUE)
        [] op = "SRA" -> Ret(SetNextReg(c, rd, i32_shr(rt, instr.shamt)), TRUE)
        [] op = "SLLV" -> Ret(SetNextReg(c, rd, u32_shl(rt, shift)), TRUE)
        [] op = "SRLV" -> Ret(SetNextReg(c, rd, u32_shr(rt, shift)), TRUE)
        [] op = "SRAV" -> Ret(SetNextReg(c, rd, i32_shr(rt, shift)), TRUE)
        [] op = "JR" -> Ret(SetNextPc(c, rs), FALSE)
        [] op = "JALR" ->
             LET jumped == SetNextPc(c, rs)
                 link == u32_add(c.curr_state.pc, Small(4))
             IN  IF Traps(link) THEN Abort(jumped)
                 ELSE Ret([jumped EXCEPT !.curr_state.regs[rd] = link.v], FALSE)
        [] op \in {"ADD", "ADDU"} ->
             LET sum == u32_add(rs, rt)
             IN  IF Traps(sum) THEN Abort(c) ELSE Ret(SetNextReg(c, rd, sum.v), TRUE)
        [] op \in {"SUB", "SUBU"} ->
             LET diff == i32_sub(rs, rt)
             IN  IF Traps(diff) THEN Abort(c) ELSE Ret(SetNextReg(c, rd, diff.v), TRUE)
        [] op = "AND" -> Ret(SetNextReg(c, rd, u32_and(rs, rt)), TRUE)
        [] op = "OR" -> Ret(SetNextReg(c, rd, u32_or(rs, rt)), TRUE)
        [] op = "XOR" -> Ret(SetNextReg(c, rd, u32_xor(rs, rt)), TRUE)
        [] op = "NOR" -> Ret(SetNextReg(c, rd, u32_not(u32_or(rs, rt))), TRUE)
        [] op = "SLT" ->
             Ret(SetNextReg(c, rd, IF i32_lt(rs, rt) THEN one ELSE Zero32), TRUE)
        [] op = "SLTU" ->
             Ret(SetNextReg(c, rd, IF u32_lt(rs, rt) THEN one ELSE Zero32), TRUE)
        [] op = "MULT" ->
             \* both operands are u32 widened to i64: the i64 product overflows from 2^63
             LET product == u64_mul(rs, rt)
             IN  IF overflow_checks /\ product[1] >= H15 THEN Abort(c)
                 ELSE Ret([c EXCEPT !.next_state.hi = W(product[1], product[2]),
                                    !.next_state.lo = W(product[3], product[4])], TRUE)
        [] op = "MULTU" ->
             LET product == u64_mul(rs, rt)
             IN  Ret([c EXCEPT !.next_state.hi = W(product[1], product[2]),
                               !.next_state.lo = W(product[3], product[4])], TRUE)
        [] op \in {"DIV", "DIVU"} ->
             \* the operands are u32 widened to 64 bits: the quotient is below 2^32
             IF rt = Zero32 THEN Abort(c)
             ELSE Ret([c EXCEPT !.next_state.hi = Zero32,
                                !.next_state.lo = u32_div(rs, rt)], TRUE)
        [] op = "MFHI" -> Ret(SetNextReg(c, rd, c.curr_state.hi), TRUE)
        [] op = "MFLO" -> Ret(SetNextReg(c, rd, c.curr_state.lo), TRUE)
        [] op = "MTHI" -> Ret([c EXCEPT !.next_state.hi = rs], TRUE)
        [] op = "MTLO" -> Ret([c EXCEPT !.next_state.lo = rs], TRUE)
        [] op = "SYSCALL" ->
             IF R(c, rd) = Small(10) THEN Ret([c EXCEPT !.run_bit = FALSE], TRUE)
             ELSE Ret(c, TRUE)

-----------------------------------------------------------------------------
(* The cycle driver *)

\* the fields of MipsComputer a cycle works on
Comp == [curr_state |-> curr_state, next_state |-> next_state,
         run_bit |-> run_bit, memory |-> memory]

\* What process_instruction yields: c after the call, whether it panicked, the
\* fetched word (fetched says whether there was one) and whether the fetch
\* halted the machine.
Outcome(c, panic, fetched, word, halt) ==
  [c |-> c, panic |-> panic, fetched |-> fetched, word |-> word, halt |-> halt]

\* match instr { JType => ..., IType => ..., RType => ... }
dispatch(c, parsed) ==
  CASE parsed.form = "J" -> process_jtype_instruction(c, parsed)
    [] parsed.form = "I" -> process_itype_instruction(c, parsed)
    [] parsed.form = "R" -> process_rtype_instruction(c, parsed)

\* an advance that also leaves the new pc in r31, as a link would
advance_pc_linking(word, h, pc4) ==
  IF h.panic THEN Outcome(h.c, TRUE, TRUE, word, FALSE)
  ELSE IF ~h.incr_pc THEN Outcome(h.c, FALSE, TRUE, word, FALSE)
  ELSE IF Traps(pc4) THEN Outcome(h.c, TRUE, TRUE, word, FALSE)
  ELSE Outcome(SetNextReg(SetNextPc(h.c, pc4.v), 31, pc4.v), FALSE, TRUE, word, FALSE)

\* if incr_pc { next_state.pc = curr_state.pc + 4 }, h being the handler's result
advance_pc(word, h, pc4) ==
  IF h.panic THEN Outcome(h.c, TRUE, TRUE, word, FALSE)
  ELSE IF ~h.incr_pc THEN Outcome(h.c, FALSE, TRUE, word, FALSE)
  ELSE IF Traps(pc4) THEN Outcome(h.c, TRUE, TRUE, word, FALSE)
  ELSE Outcome(SetNextPc(h.c, pc4.v), FALSE, TRUE, word, FALSE)

\* execute taking a word outside the tables for a no-op: only the pc advances
execute_skip_unknown(c, word, parsed) ==
  IF parsed.panic
  THEN Outcome(SetNextPc(c, u32_add(c.curr_state.pc, Small(4)).v), FALSE, TRUE, word, FALSE)
  ELSE advance_pc(word, dispatch(c, parsed), u32_add(c.curr_state.pc, Small(4)))

\* the else branch of instr == 0: decode, dispatch, advance
execute(c, word, parsed) ==
  IF parsed.panic THEN Outcome(c, TRUE, TRUE, word, FALSE)
  ELSE advance_pc(word, dispatch(c, parsed), u32_add(c.curr_state.pc, Small(4)))

\* instr is what mem_read_32(curr_state.pc) gave
fetched_instruction(c, instr) ==
  IF instr.k = "Panic" THEN Outcome(c, TRUE, FALSE, Zero32, FALSE)
  ELSE IF instr.k = "None" THEN Outcome([c EXCEPT !.run_bit = FALSE], FALSE, FALSE, Zero32, TRUE)
  ELSE IF instr.v = Zero32 THEN Outcome([c EXCEPT !.run_bit = FALSE], FALSE, TRUE, Zero32, TRUE)
  ELSE execute(c, instr.v, parse_instr(instr.v))

process_instruction(c) ==
  fetched_instruction(c, mem_read_32(c.memory, u32_as_usize(c.curr_state.pc)))

\* the two statements of cycle() after process_instruction, p being its result:
\* curr_state = next_state, then instr_cnt += 1
commit(p, cnt) ==
  IF p.panic THEN p @@ [cnt |-> cnt]
  ELSE [p EXCEPT !.c.curr_state = p.c.next_state] @@ [cnt |-> cnt + 1]

cycle(c, cnt) == commit(process_instruction(c), cnt)

-----------------------------------------------------------------------------
(* Construction and the program loader *)

CpuState_new == [pc |-> Zero32, regs |-> [i \in 0..(MIPS_REGS - 1) |-> Zero32],
                 hi |-> Zero32, lo |-> Zero32]

\* the four bytes file.read(&mut buf) leaves in the zero-filled buf at position pos
ReadBuf(file, pos) ==
  [i \in 1..4 |-> IF pos + i - 1 <= Len(file) THEN file[pos + i - 1] ELSE 0]

RECURSIVE load_loop(_, _, _, _)
load_loop(mems, file, pos, off) ==
  IF pos > Len(file) THEN mems
  ELSE load_loop(mem_write_bytes(mems, usize_add(MEM_TEXT_START, off), ReadBuf(file, pos)).mems,
                 file, pos + 4, off + 4)

load_program(c, file) ==
  [c EXCEPT !.memory = load_loop(c.memory, file, 1, 0),
            !.curr_state.pc = W(MEM_TEXT_START[3], MEM_TEXT_START[4])]

RECURSIVE load_all(_, _, _)
load_all(c, files, i) ==
  IF i > Len(files) THEN c ELSE load_all(load_program(c, files[i]), files, i + 1)

new(filenames) ==
  LET comp == [curr_state |-> CpuState_new, next_state |-> CpuState_new,
               run_bit |-> TRUE, memory |-> [r \in 1..NRegions |-> EmptyMem]]
      loaded == load_all(comp, filenames, 1)
  IN  [loaded EXCEPT !.next_state = loaded.curr_state]

-----------------------------------------------------------------------------
(* shell.rs: a command line is a sequence of one-character strings *)

\* The characters with the Unicode White_Space property, which are what
\* str::trim_end strips: U+0009..U+000D, U+0020, U+0085, U+00A0, U+1680,
\* U+2000..U+200A, U+2028, U+2029, U+202F, U+205F and U+3000.  A character a
\* module cannot hold in a string stands in a line as the string of its name.
Whitespace == {"\t", "\n", "", "\f", "\r", " ", "", " ", " ",
               "U+2000", "U+2001", "U+2002", "U+2003", "U+2004", "U+2005", "U+2006",
               "U+2007", "U+2008", "U+2009", "U+200A", "U+2028", "U+2029", "U+202F",
               "U+205F", "U+3000"}
Digits == <<"0", "1", "2", "3", "4", "5", "6", "7", "8", "9">>
IsDigit(ch) == \E d \in 1..10 : Digits[d] = ch
DigitVal(ch) == (CHOOSE d \in 1..10 : Digits[d] = ch) - 1

RECURSIVE trim_end(_)
trim_end(buf) ==
  IF buf # <<>> /\ buf[Len(buf)] \in Whitespace
  THEN trim_end(SubSeq(buf, 1, Len(buf) - 1)) ELSE buf

\* buf.split(" "): the pieces between single spaces, empty pieces included
RECURSIVE split_from(_, _, _, _)
split_from(buf, i, piece, parts) ==
  IF i > Len(buf) THEN Append(parts, piece)
  ELSE IF buf[i] = " " THEN split_from(buf, i + 1, <<>>, Append(parts, piece))
  ELSE split_from(buf, i + 1, Append(piece, buf[i]), parts)

split(buf) == split_from(buf, 1, <<>>, <<>>)

\* limbs * 10 + d on 16-bit limbs, most significant first: [v, ovf]
RECURSIVE mul10_add(_, _, _)
mul10_add(limbs, i, carry) ==
  IF i = 0 THEN [v |-> limbs, ovf |-> carry > 0]
  ELSE LET t == limbs[i] * 10 + carry
       IN  mul10_add([limbs EXCEPT ![i] = t % H16], i - 1, t \div H16)

\* str::parse for an unsigned integer of Len(zero) limbs: an optional '+', then
\* one or more decimal digits, and no overflow
RECURSIVE parse_digits(_, _, _)
parse_digits(tok, i, acc) ==
  IF i > Len(tok) THEN Some(acc)
  ELSE IF ~IsDigit(tok[i]) THEN None
  ELSE LET nx == mul10_add(acc, Len(acc), DigitVal(tok[i]))
       IN  IF nx.ovf THEN None ELSE parse_digits(tok, i + 1, nx.v)

parse_uint(tok, zero) ==
  LET body == IF tok # <<>> /\ tok[1] = "+" THEN Tail(tok) ELSE tok
  IN  IF body = <<>> THEN None ELSE parse_digits(body, 1, zero)

parse_u32(tok) == parse_uint(tok, <<0, 0>>)
parse_usize(tok) == parse_uint(tok, <<0, 0, 0, 0>>)

\* a small u32 as an integer
ToInt(w) == w[1] * H16 + w[2]

\* CpuState setters
set_hi(st, val) == [st EXCEPT !.hi = val]
set_lo(st, val) == [st EXCEPT !.lo = val]
set_reg(st, reg, val) ==
  IF usize_lt(reg, <<0, 0, 0, MIPS_REGS>>) THEN [st EXCEPT !.regs[reg[4]] = val] ELSE st

\* address + 4 does not fit a usize: address is one of the top four
usize_add_overflows(address) ==
  address[1] = H16 - 1 /\ address[2] = H16 - 1 /\ address[3] = H16 - 1 /\ address[4] >= H16 - 4

\* mdump_intern reads the words at start, start + 4, ... <= stop and changes
\* nothing.  It ends ("ok"), panics when a read indexes past the end of a
\* region or when `address += 4` overflows in a build with overflow checks
\* ("panic"), or goes on for ever ("hang").  Without overflow checks the
\* address wraps to address % 4 and every address of that residue is <= stop,
\* so the loop ends only at a read that panics: for a residue of 1, 2 or 3 the
\* read at the last bytes of the text region, for a residue of 0 none.
RECURSIVE mdump_intern(_, _, _)
mdump_intern(mems, address, stop) ==
  IF usize_lt(stop, address) THEN "ok"
  ELSE IF mem_read_32(mems, address).k = "Panic" THEN "panic"
  ELSE IF usize_add_overflows(address)
       THEN IF overflow_checks \/ address[4] % 4 # 0 THEN "panic" ELSE "hang"
       ELSE mdump_intern(mems, usize_add(address, 4), stop)

K_go    == <<"g", "o">>
K_mdump == <<"m", "d", "u", "m", "p">>
K_help  == <<"?">>
K_quit  == <<"q", "u", "i", "t">>
K_rdump == <<"r", "d", "u", "m", "p">>
K_run   == <<"r", "u", "n">>
K_input == <<"i", "n", "p", "u", "t">>
K_high  == <<"h", "i", "g", "h">>
K_low   == <<"l", "o", "w">>

-----------------------------------------------------------------------------
(* Bounds of the model *)

MaxCmds == 2        \* command lines and direct calls the driver issues
MaxCycles == 12     \* cycles executed in one life of the process

-----------------------------------------------------------------------------
(* Program images.  A file is a sequence of bytes; the loader copies them  *)
(* to TEXT in file order, so the word read_32 returns is the file's four   *)
(* bytes read least-significant byte first.                                *)

EncI(opcode, rs, rt, imm) == W(opcode * 1024 + rs * 32 + rt, imm)
EncR(rs, rt, rd, shamt, funct) == W(rs * 32 + rt, rd * 2048 + shamt * 64 + funct)
EncJ(opcode, target) == W(opcode * 1024 + target[1], target[2])

FileBytes(w) == <<w[2] % 256, w[2] \div 256, w[1] % 256, w[1] \div 256>>

RECURSIVE FileOf(_)
FileOf(words) == IF words = <<>> THEN <<>> ELSE FileBytes(Head(words)) \o FileOf(Tail(words))

\* ADDIU r0, r0, 5 ; ADDIU r8, r0, 5
ProgZeroReg == <<EncI(9, 0, 0, 5), EncI(9, 0, 8, 5)>>
\* ADDIU r2, r0, 10 ; SYSCALL (rd = 0) ; ADDIU r8, r0, 1
ProgSyscallV0 == <<EncI(9, 0, 2, 10), EncR(0, 0, 0, 0, 12), EncI(9, 0, 8, 1)>>
\* ADDIU r3, r0, 10 ; SYSCALL with rd = 3 ; ADDIU r8, r0, 1
ProgSyscallRd == <<EncI(9, 0, 3, 10), EncR(0, 0, 3, 0, 12), EncI(9, 0, 8, 1)>>
\* ADDIU r2, r0, 10 ; SYSCALL with rs = 1, rt = 1, rd = 2, shamt = 1
ProgSyscallBoth == <<EncI(9, 0, 2, 10), EncR(1, 1, 2, 1, 12)>>
\* JAL 0x0100000: jumps to itself at 0x00400000
ProgJalSelf == <<EncJ(3, W(16, 0))>>
\* J 0x0100002 (to 0x00400008) ; 0 ; JAL 0x3FFFFFF ; 
ProgJump == <<EncJ(2, W(16, 2)), Zero32, EncJ(3, W(1023, 65535))>>
\* LUI r1, 0x0040 ; ORI r1, r1, 0x10 ; JALR r5, r1 ; 0 ; JR r0
ProgJalr == <<EncI(15, 0, 1, 64), EncI(13, 1, 1, 16), EncR(1, 0, 5, 0, 9), Zero32,
              EncR(0, 0, 0, 0, 8)>>

\* LUI r1, 0x1000 ; LUI r2, 0x0C00 ; ORI r2, r2, 4 ; SW r2, 0(r1) ; JR r1
\* and so, at 0x10000000 in DATA: JAL 0x0000004
ProgJumpData == <<EncI(15, 0, 1, 4096), EncI(15, 0, 2, 3072), EncI(13, 2, 2, 4),
                  EncI(43, 1, 2, 0), EncR(1, 0, 0, 0, 8)>>
\* ADDIU r1, r0, -1 ; the REGIMM word with rt = 0x10 (BLTZAL r1, 2)
ProgBltzal == <<EncI(9, 0, 1, 65535), EncI(1, 1, 16, 2)>>
\* ADDIU r1, r0, 1 ; the REGIMM word with rt = 0x11 (BGEZAL r1, 2)
ProgBgezal == <<EncI(9, 0, 1, 1), EncI(1, 1, 17, 2)>>

\* r1 = 1, r2 = -1, then eight branches of one opcode: nt1 and nt2 are <<rs, rt>>
\* pairs whose condition fails, t1 and t2 pairs whose condition holds.  Words are
\* visited in the order 0 1 2 3 4 7 5 9; the last target is outside every region.
BranchProg(opcode, nt1, nt2, t1, t2) ==
  << EncI(9, 0, 1, 1),
     EncI(9, 0, 2, 65535),
     EncI(opcode, nt1[1], nt1[2], 65535),
     EncI(opcode, nt2[1], nt2[2], 3),
     EncI(opcode, t1[1], t1[2], 3),
     EncI(opcode, t2[1], t2[2], 4),
     Zero32,
     EncI(opcode, t1[1], t1[2], 65534),
     Zero32,
     EncI(opcode, t2[1], t2[2], 32768) >>

ProgBeq  == BranchProg(4, <<1, 2>>, <<0, 1>>, <<1, 1>>, <<0, 0>>)
ProgBne  == BranchProg(5, <<1, 1>>, <<0, 0>>, <<1, 2>>, <<0, 2>>)
ProgBlez == BranchProg(6, <<1, 0>>, <<1, 0>>, <<0, 0>>, <<2, 0>>)
ProgBgtz == BranchProg(7, <<0, 0>>, <<2, 0>>, <<1, 0>>, <<1, 0>>)
ProgBltz == BranchProg(1, <<0, 0>>, <<1, 0>>, <<2, 0>>, <<2, 0>>)
ProgBgez == BranchProg(1, <<2, 1>>, <<2, 1>>, <<0, 1>>, <<1, 1>>)

\* LUI r1, 0x7FFF ; ORI r1, r1, 0xFFFC ; LUI r2, hi ; ORI r2, r2, 1 ; SW r2, 0(r1) ; JR r1
\* and so, in the last word of STACK (0x7FFFFFFC): the branch hi:0001 with imm = 1
BranchAtStackTop(hi) ==
  << EncI(15, 0, 1, 32767), EncI(13, 1, 1, 65532), EncI(15, 0, 2, hi), EncI(13, 2, 2, 1),
     EncI(43, 1, 2, 0), EncR(1, 0, 0, 0, 8) >>

ProgBeqEdge == BranchAtStackTop(4096)     \* BEQ r0, r0, 1
ProgBneEdge == BranchAtStackTop(5120)     \* BNE r0, r0, 1

\* r1 = 7, r2 = 3, r3 = -8, then ALU instructions whose rd is one of their sources
ProgAliasArith ==
  << EncI(9, 0, 1, 7), EncI(9, 0, 2, 3), EncI(9, 0, 3, 65528),
     EncR(1, 1, 1, 0, 32),      \* ADD  r1, r1, r1
     EncR(1, 2, 2, 0, 33),      \* ADDU r2, r1, r2
     EncR(1, 2, 1, 0, 34),      \* SUB  r1, r1, r2
     EncR(1, 2, 2, 0, 35),      \* SUBU r2, r1, r2
     EncR(1, 2, 1, 0, 36),      \* AND  r1, r1, r2
     EncR(3, 2, 2, 0, 37),      \* OR   r2, r3, r2
     EncR(1, 3, 1, 0, 38),      \* XOR  r1, r1, r3
     EncR(1, 3, 3, 0, 39) >>    \* NOR  r3, r1, r3

\* r1 = 8, r2 = -8, r3 = 3, then shifts and ADDI/ADDIU onto their own source
ProgAliasShift ==
  << EncI(9, 0, 1, 8), EncI(9, 0, 2, 65528), EncI(9, 0, 3, 3),
     EncR(0, 1, 1, 2, 0),       \* SLL  r1, r1, 2
     EncR(0, 2, 2, 1, 3),       \* SRA  r2, r2, 1
     EncR(0, 2, 2, 28, 2),      \* SRL  r2, r2, 28
     EncR(3, 1, 1, 0, 4),       \* SLLV r1, r1, r3
     EncR(3, 1, 3, 0, 6),       \* SRLV r3, r1, r3
     EncR(2, 2, 2, 0, 7),       \* SRAV r2, r2, r2
     EncI(8, 1, 1, 65535),      \* ADDI  r1, r1, -1
     EncI(9, 1, 1, 1) >>        \* ADDIU r1, r1, 1

Programs == {ProgZeroReg, ProgSyscallV0, ProgSyscallRd, ProgSyscallBoth, ProgJalSelf,
             ProgJump, ProgJalr, ProgJumpData, ProgBltzal, ProgBgezal,
             ProgBeq, ProgBne, ProgBlez, ProgBgtz, ProgBltz, ProgBgez,
             ProgBeqEdge, ProgBneEdge, ProgAliasArith, ProgAliasShift}

\* the lists of files the simulator is started with
FileLists == {<<FileOf(p)>> : p \in Programs}

-----------------------------------------------------------------------------
(* Command lines the operator types *)

L_go      == <<"g", "o", "\n">>
L_run1    == <<"r", "u", "n", " ", "1", " ", "x", "\n">>
L_run2    == <<"r", "u", "n", " ", "2", " ", "x", "\n">>
L_run3two == <<"r", "u", "n", " ", "3", "\n">>
L_input2  == <<"i", "n", "p", "u", "t", " ", "2", " ", "1", "0", "\n">>
L_input32 == <<"i", "n", "p", "u", "t", " ", "3", "2", " ", "7", "\n">>
L_high    == <<"h", "i", "g", "h", " ", "3", " ", "x", "\n">>
L_low     == <<"l", "o", "w", " ", "4", " ", "x", "\n">>
L_rdump   == <<"r", "d", "u", "m", "p", "\n">>
L_mdump   == <<"m", "d", "u", "m", "p", " ", "4", "1", "9", "4", "3", "0", "4", " ",
               "4", "1", "9", "4", "3", "0", "8", "\n">>
L_help    == <<"?", "\n">>
L_quit    == <<"q", "u", "i", "t", "\n">>
L_bogus   == <<"z", "z", "\n">>
L_eof     == <<>>

L_high5two == <<"h", "i", "g", "h", " ", "5", "\n">>
L_low6two  == <<"l", "o", "w", " ", "6", "\n">>

\* `go` followed by a form feed, and an mdump of the top four addresses
L_goFF     == <<"g", "o", "\f", "\n">>
L_mdumpTop == <<"m", "d", "u", "m", "p", " ",
                "1", "8", "4", "4", "6", "7", "4", "4", "0", "7", "3", "7", "0", "9",
                "5", "5", "1", "6", "1", "2", " ",
                "1", "8", "4", "4", "6", "7", "4", "4", "0", "7", "3", "7", "0", "9",
                "5", "5", "1", "6", "1", "5", "\n">>

Lines == {L_go, L_run1, L_run2, L_run3two, L_input2, L_input32, L_high, L_low,
          L_rdump, L_mdump, L_help, L_quit, L_bogus, L_eof, L_high5two, L_low6two,
          L_goFF, L_mdumpTop}

-----------------------------------------------------------------------------
(* Observations kept beside the program's state *)

NoCycle == [kind |-> "none", fetched |-> FALSE, word |-> Zero32, curr |-> CpuState_new,
            next |-> CpuState_new, cnt |-> 0, mem |-> [r \in 1..NRegions |-> EmptyMem],
            run |-> TRUE]

NoRun == [call |-> "none", n |-> 0, cnt0 |-> 0, phase |-> "idle"]

-----------------------------------------------------------------------------
(* Actions *)

Machine == <<curr_state, next_state, run_bit, instr_cnt, memory>>

\* the variables after a call of cycle() that gave r, in the loop of run() or go()
Cycled(r, loop) ==
  /\ curr_state' = r.c.curr_state
  /\ next_state' = r.c.next_state
  /\ run_bit' = r.c.run_bit
  /\ memory' = r.c.memory
  /\ instr_cnt' = r.cnt
  /\ proc' = IF r.panic THEN "panicked" ELSE loop
  /\ last' = [kind |-> IF r.panic THEN "panic" ELSE IF r.halt THEN "halt" ELSE "commit",
              fetched |-> r.fetched, word |-> r.word, curr |-> curr_state,
              next |-> next_state, cnt |-> instr_cnt, mem |-> memory, run |-> run_bit]

\* one call of cycle() from the loop of run() or go()
DoCycle(loop) ==
  /\ instr_cnt < MaxCycles
  /\ Cycled(cycle(Comp, instr_cnt), loop)

\* run(num_cycles) without its test of run_bit on entry
run_unchecked(num_cycles, call) ==
  /\ UNCHANGED Machine
  /\ last' = NoCycle
  /\ proc' = "run"
  /\ run_left' = num_cycles
  /\ run_obs' = [call |-> call, n |-> num_cycles, cnt0 |-> instr_cnt, phase |-> "looping"]

\* the entry of run(num_cycles): refused when halted, else the for loop starts
run(num_cycles, call) ==
  /\ UNCHANGED Machine
  /\ last' = NoCycle
  /\ IF ~run_bit
     THEN /\ proc' = "prompt"
          /\ run_left' = 0
          /\ run_obs' = [call |-> call, n |-> num_cycles, cnt0 |-> instr_cnt, phase |-> "refused"]
     ELSE /\ proc' = "run"
          /\ run_left' = num_cycles
          /\ run_obs' = [call |-> call, n |-> num_cycles, cnt0 |-> instr_cnt, phase |-> "looping"]

step == run(1, "step")

\* the entry of go()
go ==
  /\ UNCHANGED <<Machine, run_left>>
  /\ last' = NoCycle
  /\ IF ~run_bit
     THEN /\ proc' = "prompt"
          /\ run_obs' = [call |-> "go", n |-> 0, cnt0 |-> instr_cnt, phase |-> "refused"]
     ELSE /\ proc' = "go"
          /\ run_obs' = [call |-> "go", n |-> 0, cnt0 |-> instr_cnt, phase |-> "looping"]

\* the for loop of run() without its `if !self.run_bit { break }`
RunLoop_no_break ==
  /\ proc = "run"
  /\ UNCHANGED <<overflow_checks, cmds>>
  /\ IF run_left = 0
     THEN /\ UNCHANGED <<Machine, last>>
          /\ proc' = "prompt"
          /\ run_left' = 0
          /\ run_obs' = [run_obs EXCEPT !.phase = "returned"]
     ELSE /\ DoCycle("run")
          /\ run_left' = run_left - 1
          /\ UNCHANGED run_obs

\* the head of the for loop of run()
RunLoop ==
  /\ proc = "run"
  /\ UNCHANGED <<overflow_checks, cmds>>
  /\ IF run_left = 0 \/ ~run_bit
     THEN /\ UNCHANGED <<Machine, last>>
          /\ proc' = "prompt"
          /\ run_left' = 0
          /\ run_obs' = [run_obs EXCEPT !.phase = "returned"]
     ELSE /\ DoCycle("run")
          /\ run_left' = run_left - 1
          /\ UNCHANGED run_obs

\* the head of the while loop of go()
GoLoop ==
  /\ proc = "go"
  /\ UNCHANGED <<overflow_checks, cmds, run_left>>
  /\ IF ~run_bit
     THEN /\ UNCHANGED <<Machine, last>>
          /\ proc' = "prompt"
          /\ run_obs' = [run_obs EXCEPT !.phase = "returned"]
     ELSE /\ DoCycle("go")
          /\ UNCHANGED run_obs

\* a command that leaves the machine alone and ends in state p of the process
Idle(p) ==
  /\ UNCHANGED <<Machine, run_left>>
  /\ proc' = p
  /\ run_obs' = NoRun
  /\ last' = NoCycle

\* a command that stores into the current snapshot only
Poke_curr_only(curr, next) ==
  /\ curr_state' = curr
  /\ UNCHANGED <<next_state, run_bit, instr_cnt, memory, run_left>>
  /\ proc' = "prompt"
  /\ run_obs' = NoRun
  /\ last' = NoCycle

\* a command that stores into both snapshots
Poke(curr, next) ==
  /\ curr_state' = curr
  /\ next_state' = next
  /\ UNCHANGED <<run_bit, instr_cnt, memory, run_left>>
  /\ proc' = "prompt"
  /\ run_obs' = NoRun
  /\ last' = NoCycle

\* prompt(): read one line (the empty input is end of file) and obey it
prompt(line) ==
  LET bytes == Len(line)
      buf == trim_end(line)
      parts == split(buf)
      n == Len(parts)
      p1 == parse_u32(parts[2])
      a1 == parse_usize(parts[2])
      a2 == parse_usize(parts[3])
      v2 == parse_u32(parts[3])
  IN  IF bytes = 0 THEN Idle("exited")
      ELSE CASE parts[1] = K_go -> go
             [] parts[1] = K_mdump ->
                  IF n < 3 \/ a1.k # "Some" \/ a2.k # "Some" THEN Idle("prompt")
                  ELSE IF mdump_intern(memory, a1.v, a2.v) = "panic" THEN Idle("panicked")
                  ELSE IF mdump_intern(memory, a1.v, a2.v) = "hang" THEN Idle("hung")
                  ELSE Idle("prompt")
             [] parts[1] = K_help -> Idle("prompt")
             [] parts[1] = K_quit -> Idle("exited")
             [] parts[1] = K_rdump -> Idle("prompt")
             [] parts[1] = K_run ->
                  IF n < 3 \/ p1.k # "Some" THEN Idle("prompt")
                  ELSE run(ToInt(p1.v), "run")
             [] parts[1] = K_input ->
                  IF n < 3 \/ a1.k # "Some" \/ v2.k # "Some" THEN Idle("prompt")
                  ELSE Poke(set_reg(curr_state, a1.v, v2.v), set_reg(next_state, a1.v, v2.v))
             [] parts[1] = K_high ->
                  IF n < 3 \/ p1.k # "Some" THEN Idle("prompt")
                  ELSE Poke(set_hi(curr_state, p1.v), set_hi(next_state, p1.v))
             [] parts[1] = K_low ->
                  IF n < 3 \/ p1.k # "Some" THEN Idle("prompt")
                  ELSE Poke(set_lo(curr_state, p1.v), set_lo(next_state, p1.v))
             [] OTHER -> Idle("prompt")

\* main's loop: one call of prompt
Prompt ==
  /\ proc = "prompt"
  /\ cmds < MaxCmds
  /\ cmds' = cmds + 1
  /\ UNCHANGED overflow_checks
  /\ \E line \in Lines : prompt(line)

\* a direct call of the public step()
Step ==
  /\ proc = "prompt"
  /\ cmds < MaxCmds
  /\ cmds' = cmds + 1
  /\ UNCHANGED overflow_checks
  /\ step

Init ==
  /\ overflow_checks \in BOOLEAN
  /\ \E filenames \in FileLists :
       LET comp == new(filenames)
       IN  /\ curr_state = comp.curr_state
           /\ next_state = comp.next_state
           /\ run_bit = comp.run_bit
           /\ memory = comp.memory
  /\ instr_cnt = 0
  /\ proc = "prompt"
  /\ run_left = 0
  /\ run_obs = NoRun
  /\ cmds = 0
  /\ last = NoCycle

Next == Prompt \/ Step \/ RunLoop \/ GoLoop

Spec == Init /\ [][Next]_vars

-----------------------------------------------------------------------------
(* Properties.  last holds the cycle that has just run: the word it fetched *)
(* and the machine as it was before the cycle.                               *)

\* the decoded form of the word the last cycle fetched
LastInstr == parse_instr(last.word)

\* the last cycle ran a handler to its end and cycle() copied next into curr
Committed == last.kind = "commit"

\* the last cycle committed an instruction of one of the kinds ops
Executed(ops) == Committed /\ LastInstr.op \in ops

\* a word as the signed 32-bit integer it stands for
int32(w) == IF w[1] >= H15 THEN (w[1] - H16) * H16 + w[2] ELSE w[1] * H16 + w[2]

\* C1: after every commit, whatever instruction was executed (a destination
\* index of 0 included), register 0 of the current snapshot is 0.
C1_ZeroRegisterAfterCommit ==
  last.kind \in {"commit", "halt"} => curr_state.regs[0] = Zero32

\* C2: a cycle whose fetch is absent or the zero word sets running to false,
\* leaves both snapshots and all memory as they were and does not count as an
\* executed instruction.
C2_HaltingCycleFrame ==
  last.kind = "halt" =>
    /\ ~run_bit
    /\ curr_state = last.curr
    /\ next_state = last.next
    /\ memory = last.mem
    /\ instr_cnt = last.cnt

\* the part of C2 the code keeps: everything but the instruction count
HaltingCycleKeepsState ==
  last.kind = "halt" =>
    /\ ~run_bit
    /\ curr_state = last.curr
    /\ next_state = last.next
    /\ memory = last.mem

\* the instructions C3 names: ADD/SUB/AND/OR/XOR/NOR, the shifts, the ADDI family
AluOps == {"ADD", "ADDU", "SUB", "SUBU", "AND", "OR", "XOR", "NOR",
           "SLL", "SRL", "SRA", "SLLV", "SRLV", "SRAV", "ADDI", "ADDIU"}

\* the register an ALU instruction writes
AluDest(i) == IF i.form = "R" THEN i.rd ELSE i.rt

\* the destination of an ALU instruction is one of the registers it reads
Aliased(i) ==
  CASE i.op \in {"SLL", "SRL", "SRA"} -> i.rd = i.rt
    [] i.op \in {"ADDI", "ADDIU"} -> i.rt = i.rs
    [] OTHER -> i.rd \in {i.rs, i.rt}

\* a 16-bit immediate sign-extended to a word
se16(imm) == IF imm >= H15 THEN W(H16 - 1, imm) ELSE W(0, imm)

\* the operation of ALU instruction i applied to the register file regs
AluResult(i, regs) ==
  CASE i.op \in {"ADD", "ADDU"} -> u32_add(regs[i.rs], regs[i.rt]).v
    [] i.op \in {"SUB", "SUBU"} -> u32_add(regs[i.rs], Neg32(regs[i.rt])).v
    [] i.op = "AND" -> u32_and(regs[i.rs], regs[i.rt])
    [] i.op = "OR" -> u32_or(regs[i.rs], regs[i.rt])
    [] i.op = "XOR" -> u32_xor(regs[i.rs], regs[i.rt])
    [] i.op = "NOR" -> u32_not(u32_or(regs[i.rs], regs[i.rt]))
    [] i.op = "SLL" -> u32_shl(regs[i.rt], i.shamt)
    [] i.op = "SRL" -> u32_shr(regs[i.rt], i.shamt)
    [] i.op = "SRA" -> i32_shr(regs[i.rt], i.shamt)
    [] i.op = "SLLV" -> u32_shl(regs[i.rt], regs[i.rs][2] % 32)
    [] i.op = "SRLV" -> u32_shr(regs[i.rt], regs[i.rs][2] % 32)
    [] i.op = "SRAV" -> i32_shr(regs[i.rt], regs[i.rs][2] % 32)
    [] i.op \in {"ADDI", "ADDIU"} -> u32_add(regs[i.rs], se16(i.imm[2])).v

\* C3: a handler computes from the values held before the instruction, also
\* when the destination is one of the sources: after a committed
\* ADD/SUB/AND/OR/XOR/NOR/shift/ADDI-family instruction whose destination is
\* rs or rt, the destination holds the operation applied to the operands as
\* they were before the cycle.
C3_AliasedDestination ==
  (Executed(AluOps) /\ Aliased(LastInstr)) =>
    curr_state.regs[AluDest(LastInstr)] = AluResult(LastInstr, last.curr.regs)

\* SUB r1, r1, r2 with r1 = 14 and r2 = 17 has left -3 in r1
C3_Witness ==
  /\ Executed({"SUB"})
  /\ LastInstr.rd = LastInstr.rs
  /\ last.curr.regs[1] = Small(14)
  /\ last.curr.regs[2] = Small(17)
  /\ curr_state.regs[1] = W(65535, 65533)

\* a call of run, step or go has come back to its caller
Returned(calls) == run_obs.call \in calls /\ run_obs.phase = "returned"

\* C4: run(N) on a running machine executes at most N cycles and no cycle
\* once running is false; when it returns with the machine still running it
\* has executed exactly N cycles and instr_cnt has grown by N; step() is
\* run(1); go() returns only with running false.
C4_RunStepGo ==
  /\ (last.kind # "none" => last.run)
  /\ (run_obs.call \in {"run", "step"} /\ run_obs.phase \in {"looping", "returned"} =>
        instr_cnt - run_obs.cnt0 <= run_obs.n)
  /\ (Returned({"run", "step"}) /\ run_bit => instr_cnt = run_obs.cnt0 + run_obs.n)
  /\ (run_obs.call = "step" => run_obs.n = 1)
  /\ (Returned({"go"}) => ~run_bit)

\* run(2) has returned after two cycles with the machine still running
C4_Witness ==
  /\ Returned({"run"})
  /\ run_obs.n = 2
  /\ run_bit
  /\ instr_cnt = run_obs.cnt0 + 2
  /\ Committed

\* C5: once running is false it stays false, and every later go, run(N) or
\* step is refused, leaving both snapshots, memory, instr_cnt and running as
\* they were.
C5_HaltedStaysHalted ==
  [][~run_bit =>
       /\ ~run_bit'
       /\ (cmds' # cmds /\ run_obs'.call # "none" =>
             /\ run_obs'.phase = "refused"
             /\ proc' = "prompt"
             /\ UNCHANGED Machine)]_vars

\* run(2) has been refused on a machine that halted after executing cycles
C5_Witness ==
  /\ ~run_bit
  /\ run_obs.phase = "refused"
  /\ run_obs.call = "run"
  /\ run_obs.n = 2
  /\ instr_cnt > 0

\* C6: executing SYSCALL sets running to false if and only if register 2 (v0)
\* of the current state is 10, whatever the rd, rs, rt and shamt fields of the
\* word and whatever the other registers hold.
C6_SyscallHaltsOnV0 ==
  Executed({"SYSCALL"}) => (~run_bit <=> last.curr.regs[2] = Small(10))

\* what the code does instead: SYSCALL halts exactly when regs[rd] is 10
SyscallHaltsOnRd ==
  Executed({"SYSCALL"}) => (~run_bit <=> last.curr.regs[LastInstr.rd] = Small(10))

\* the six conditional branches without link
BranchOps == {"BEQ", "BNE", "BLEZ", "BGTZ", "BLTZ", "BGEZ"}

\* the condition of branch i on the register file regs
BranchCondition(i, regs) ==
  CASE i.op = "BEQ" -> regs[i.rs] = regs[i.rt]
    [] i.op = "BNE" -> regs[i.rs] # regs[i.rt]
    [] i.op = "BLEZ" -> int32(regs[i.rs]) <= 0
    [] i.op = "BGTZ" -> int32(regs[i.rs]) > 0
    [] i.op = "BLTZ" -> int32(regs[i.rs]) < 0
    [] i.op = "BGEZ" -> int32(regs[i.rs]) >= 0

\* se18(imm << 2) for a 16-bit imm, as a word
se18(imm) ==
  IF imm >= H15 THEN W(H16 - 4 + (imm * 4) \div H16, (imm * 4) % H16)
  ELSE W((imm * 4) \div H16, (imm * 4) % H16)

\* C7: a committed BEQ, BNE, BLEZ, BGTZ, BLTZ or BGEZ whose condition holds
\* leaves PC = (PC + se18(imm << 2)) mod 2^32, counted from the branch's own
\* PC with no +4, for backward branches (imm >= 0x8000) as for forward ones;
\* one whose condition fails leaves PC + 4.
C7_BranchTarget ==
  Executed(BranchOps) =>
    curr_state.pc = IF BranchCondition(LastInstr, last.curr.regs)
                    THEN u32_add(last.curr.pc, se18(LastInstr.imm[2])).v
                    ELSE u32_add(last.curr.pc, Small(4)).v

\* a taken backward branch: imm = 0xFFFE at 0x0040001C has led to 0x00400014
C7_Witness ==
  /\ Executed(BranchOps)
  /\ LastInstr.imm = Small(65534)
  /\ BranchCondition(LastInstr, last.curr.regs)
  /\ last.curr.pc = W(64, 28)
  /\ curr_state.pc = W(64, 20)

\* the word is a BLTZAL or a BGEZAL: primary opcode 1 (REGIMM) with rt 0x10 or 0x11
IsLinkBranch(word) ==
  extract_opcode(word) = 1 /\ Field(word, RT_MASK, 16) \in {16, 17}

\* C8: a cycle that executes BLTZAL or BGEZAL at address P commits with
\* register 31 equal to P + 4, whether or not the branch is taken.
C8_LinkBranchLinks ==
  (last.fetched /\ IsLinkBranch(last.word)) =>
    /\ Committed
    /\ curr_state.regs[31] = u32_add(last.curr.pc, Small(4)).v

\* what the code does instead: every cycle that fetches such a word panics in
\* the decoder, with the machine as it was
LinkBranchPanics ==
  (last.fetched /\ IsLinkBranch(last.word)) =>
    /\ last.kind = "panic"
    /\ curr_state = last.curr
    /\ next_state = last.next

\* (P & 0xF0000000) | (T << 2) for the 26-bit target T
JumpTarget(p, t) ==
  W((p[1] \div 4096) * 4096 + t[1] * 4 + t[2] \div 16384, (t[2] % 16384) * 4)

\* C9: a committed J or JAL at address P with target T leaves
\* PC = (P & 0xF0000000) | (T << 2); JAL leaves P + 4 in register 31 and J
\* changes no general register.
C9_JumpAndLink ==
  /\ (Executed({"J", "JAL"}) =>
        curr_state.pc = JumpTarget(last.curr.pc, LastInstr.target))
  /\ (Executed({"JAL"}) =>
        curr_state.regs = [last.curr.regs EXCEPT ![31] = u32_add(last.curr.pc, Small(4)).v])
  /\ (Executed({"J"}) => curr_state.regs = last.curr.regs)

\* JAL 4 at 0x10000000 has led to 0x10000010 with 0x10000004 in register 31
C9_Witness ==
  /\ Executed({"JAL"})
  /\ last.curr.pc = W(4096, 0)
  /\ LastInstr.target = Small(4)
  /\ curr_state.pc = W(4096, 16)
  /\ curr_state.regs[31] = W(4096, 4)

\* C10: a committed JALR rd, rs at address P leaves PC = R[rs] as it was
\* before the instruction and R[rd] = P + 4; a committed JR rs leaves
\* PC = R[rs] and changes no general register.
C10_JumpRegister ==
  /\ (Executed({"JALR"}) =>
        /\ curr_state.pc = last.curr.regs[LastInstr.rs]
        /\ curr_state.regs[LastInstr.rd] = u32_add(last.curr.pc, Small(4)).v)
  /\ (Executed({"JR"}) =>
        /\ curr_state.pc = last.curr.regs[LastInstr.rs]
        /\ curr_state.regs = last.curr.regs)

\* what the code does instead: JALR and JR both leave PC = R[rs] and change
\* no general register
JumpRegisterNoLink ==
  Executed({"JALR", "JR"}) =>
    /\ curr_state.pc = last.curr.regs[LastInstr.rs]
    /\ curr_state.regs = last.curr.regs

-----------------------------------------------------------------------------
(* The decoder on its own: the machine is built from a file of one word,   *)
(* drawn from every primary opcode and every funct with the other fields   *)
(* at their extremes, and stepped.                                         *)

\* construction from one of the file lists, before any command
Boot(lists) ==
  /\ overflow_checks \in BOOLEAN
  /\ \E filenames \in lists :
       LET comp == new(filenames)
       IN  /\ curr_state = comp.curr_state
           /\ next_state = comp.next_state
           /\ run_bit = comp.run_bit
           /\ memory = comp.memory
  /\ instr_cnt = 0
  /\ proc = "prompt"
  /\ run_left = 0
  /\ run_obs = NoRun
  /\ cmds = 0
  /\ last = NoCycle

\* bits 25..16 (rs, rt) and bits 15..0 of the words decoded
HiFields == {31 * 32, 31, 21 * 32 + 10}
LoFields == {65535, 1, 32768 + 10 * 2048 + 21 * 64}

DecodeWords ==
  {W(opcode * 1024 + hi, lo) : opcode \in 0..63, hi \in HiFields, lo \in LoFields}
    \cup {W(hi, rd * 2048 + shamt * 64 + funct) :
            hi \in HiFields, rd \in {0, 31}, shamt \in {0, 21}, funct \in 0..63}
    \cup {W(1024 + rs * 32 + rt, 2) : rs \in {0, 31}, rt \in 0..31}

DecodeFileLists == {<<FileOf(<<w>>)>> : w \in DecodeWords \ {Zero32}}

DecodeInit == Boot(DecodeFileLists)

DecodeNext == Step \/ RunLoop

DecodeSpec == DecodeInit /\ [][DecodeNext]_vars

\* the bit-fields of a word: opcode 31..26, rs 25..21, rt 20..16, rd 15..11,
\* shamt 10..6, funct 5..0, imm 15..0, target 25..0
OpcodeOf(w) == w[1] \div 1024
RsOf(w) == (w[1] \div 32) % 32
RtOf(w) == w[1] % 32
RdOf(w) == w[2] \div 2048
ShamtOf(w) == (w[2] \div 64) % 32
FunctOf(w) == w[2] % 64
ImmOf(w) == W(0, w[2])
TargetOf(w) == W(w[1] % 1024, w[2])

\* the REGIMM table of C11: the operation selected by rt, "none" a decode failure
RegimmTable(rt) ==
  CASE rt = 0 -> "BLTZ"
    [] rt = 1 -> "BGEZ"
    [] rt = 16 -> "BLTZAL"
    [] rt = 17 -> "BGEZAL"
    [] OTHER -> "none"

\* C11: for every word of primary opcode 1 the decoder selects the operation
\* by the 5-bit rt field: 0x00 BLTZ, 0x01 BGEZ, 0x10 BLTZAL, 0x11 BGEZAL, and
\* every other rt is a decode failure.
C11_RegimmDecode ==
  (last.fetched /\ OpcodeOf(last.word) = 1) =>
    IF RegimmTable(RtOf(last.word)) = "none" THEN LastInstr.panic
    ELSE ~LastInstr.panic /\ LastInstr.op = RegimmTable(RtOf(last.word))

\* what the code does instead: rt 0 and 1 decode, every other 5-bit rt fails
RegimmOnlyWithoutLink ==
  (last.fetched /\ OpcodeOf(last.word) = 1) =>
    IF RtOf(last.word) \in {0, 1}
    THEN ~LastInstr.panic /\ LastInstr.op = RegimmTable(RtOf(last.word))
    ELSE LastInstr.panic

\* the primary opcode table of C12, "none" for an opcode outside it
OpcodeTable(opcode) ==
  CASE opcode = 2 -> "J"      [] opcode = 3 -> "JAL"
    [] opcode = 4 -> "BEQ"    [] opcode = 5 -> "BNE"
    [] opcode = 6 -> "BLEZ"   [] opcode = 7 -> "BGTZ"
    [] opcode = 8 -> "ADDI"   [] opcode = 9 -> "ADDIU"
    [] opcode = 10 -> "SLTI"  [] opcode = 11 -> "SLTIU"
    [] opcode = 12 -> "ANDI"  [] opcode = 13 -> "ORI"
    [] opcode = 14 -> "XORI"  [] opcode = 15 -> "LUI"
    [] opcode = 32 -> "LB"    [] opcode = 33 -> "LH"
    [] opcode = 35 -> "LW"    [] opcode = 36 -> "LBU"
    [] opcode = 37 -> "LHU"   [] opcode = 40 -> "SB"
    [] opcode = 41 -> "SH"    [] opcode = 43 -> "SW"
    [] OTHER -> "none"

\* the funct table of the R-form, "none" for a funct outside it
FunctTable(funct) ==
  CASE funct = 0 -> "SLL"     [] funct = 2 -> "SRL"
    [] funct = 3 -> "SRA"     [] funct = 4 -> "SLLV"
    [] funct = 6 -> "SRLV"    [] funct = 7 -> "SRAV"
    [] funct = 8 -> "JR"      [] funct = 9 -> "JALR"
    [] funct = 12 -> "SYSCALL"
    [] funct = 16 -> "MFHI"   [] funct = 17 -> "MTHI"
    [] funct = 18 -> "MFLO"   [] funct = 19 -> "MTLO"
    [] funct = 24 -> "MULT"   [] funct = 25 -> "MULTU"
    [] funct = 26 -> "DIV"    [] funct = 27 -> "DIVU"
    [] funct = 32 -> "ADD"    [] funct = 33 -> "ADDU"
    [] funct = 34 -> "SUB"    [] funct = 35 -> "SUBU"
    [] funct = 36 -> "AND"    [] funct = 37 -> "OR"
    [] funct = 38 -> "XOR"    [] funct = 39 -> "NOR"
    [] funct = 42 -> "SLT"    [] funct = 43 -> "SLTU"
    [] OTHER -> "none"

\* the decoded record d is the operation op with the bit-fields of word w
DecodedAs(d, w, op) ==
  /\ ~d.panic
  /\ d.op = op
  /\ d.opcode = OpcodeOf(w)
  /\ CASE op \in {"J", "JAL"} -> d.form = "J" /\ d.target = TargetOf(w)
       [] OpcodeOf(w) = 0 ->
            /\ d.form = "R"
            /\ d.rs = RsOf(w) /\ d.rt = RtOf(w) /\ d.rd = RdOf(w)
            /\ d.shamt = ShamtOf(w) /\ d.funct = FunctOf(w)
       [] OTHER ->
            d.form = "I" /\ d.rs = RsOf(w) /\ d.rt = RtOf(w) /\ d.imm = ImmOf(w)

\* C12: a word whose primary opcode is in the opcode table, or is 0 with a
\* funct of the R-form table, decodes to the operation listed for it, with
\* the record's fields equal to the word's bit-fields.
C12_DecodeRoundTrip ==
  /\ (last.fetched /\ OpcodeTable(OpcodeOf(last.word)) # "none" =>
        DecodedAs(LastInstr, last.word, OpcodeTable(OpcodeOf(last.word))))
  /\ (last.fetched /\ OpcodeOf(last.word) = 0 /\ FunctTable(FunctOf(last.word)) # "none" =>
        DecodedAs(LastInstr, last.word, FunctTable(FunctOf(last.word))))

\* SLTU with rs = 21, rt = 10, rd = 31, shamt = 21 has been fetched and decoded
C12_Witness ==
  /\ last.fetched
  /\ last.word = W(21 * 32 + 10, 31 * 2048 + 21 * 64 + 43)
  /\ LastInstr.op = "SLTU"
  /\ LastInstr.rs = 21
  /\ LastInstr.rd = 31

\* the word is outside the decoder tables: an unlisted primary opcode, or
\* opcode 0 with an unlisted funct
UnknownOpcode(w) ==
  \/ OpcodeOf(w) \notin {0, 1} /\ OpcodeTable(OpcodeOf(w)) = "none"
  \/ OpcodeOf(w) = 0 /\ FunctTable(FunctOf(w)) = "none"

\* C13: a cycle that fetches a non-zero word outside the decoder tables fails
\* and commits nothing: both snapshots, memory and instr_cnt are as before.
C13_UnknownOpcodeAborts ==
  (last.fetched /\ last.word # Zero32 /\ UnknownOpcode(last.word)) =>
    /\ last.kind = "panic"
    /\ curr_state = last.curr
    /\ next_state = last.next
    /\ memory = last.mem
    /\ instr_cnt = last.cnt
    /\ run_bit = last.run

\* a word of opcode 0 and funct 0x3F has aborted the cycle
C13_Witness ==
  /\ last.kind = "panic"
  /\ OpcodeOf(last.word) = 0
  /\ FunctOf(last.word) = 63
  /\ instr_cnt = 0

-----------------------------------------------------------------------------
(* The memory on its own: mem_write_32 applied to addresses of all five    *)
(* regions.  run_obs holds the region and offset of one successful write   *)
(* no later write has touched, and last.word the value it stored.          *)

\* offsets written in each region: the first word, a word overlapping it, the
\* last word, and the last halfword, where a 32-bit access leaves the region
MemOffsets == {0, 2, MEM_DATA_SIZE - 4, MEM_DATA_SIZE - 2}
MemValues == {W(258, 772), W(65535, 65535), W(32768, 255)}

MemAddress(r, off) == usize_add(Regions[r].start, off)

\* two 32-bit accesses share a byte
Overlap(r1, off1, r2, off2) == r1 = r2 /\ off1 - off2 \in -3..3

\* mem_write_32(address, value) called on the machine
MemWrite ==
  /\ proc = "prompt"
  /\ cmds < MaxCmds
  /\ cmds' = cmds + 1
  /\ UNCHANGED <<curr_state, next_state, run_bit, instr_cnt, overflow_checks, run_left>>
  /\ \E r \in 1..NRegions, off \in MemOffsets, v \in MemValues, track \in BOOLEAN :
       LET w == mem_write_32(memory, MemAddress(r, off), v)
           tracked == run_obs.call = "write_32"
           hit == tracked /\ Overlap(r, off, run_obs.n, run_obs.cnt0)
       IN  /\ memory' = w.mems
           /\ proc' = IF w.panic THEN "panicked" ELSE "prompt"
           /\ IF w.ok /\ (track \/ hit \/ ~tracked)
              THEN /\ run_obs' = [call |-> "write_32", n |-> r, cnt0 |-> off, phase |-> "stored"]
                   /\ last' = [NoCycle EXCEPT !.kind = "write", !.word = v]
              ELSE UNCHANGED <<run_obs, last>>

MemInit == Boot({<<FileOf(ProgZeroReg)>>})

MemNext == MemWrite

MemSpec == MemInit /\ [][MemNext]_vars

\* byte i (0 the least significant) of a word
ByteOf(v, i) ==
  CASE i = 0 -> v[2] % 256
    [] i = 1 -> v[2] \div 256
    [] i = 2 -> v[1] % 256
    [] i = 3 -> v[1] \div 256

\* C14: after write32(a, v) has succeeded at an address of any of the five
\* regions, read32(a) returns v, and goes on returning v while no later
\* operation writes one of the bytes a..a+3; the four bytes lie least
\* significant first from address a up.
C14_WriteReadRoundTrip ==
  run_obs.call = "write_32" =>
    /\ mem_read_32(memory, MemAddress(run_obs.n, run_obs.cnt0)) = Some(last.word)
    /\ \A i \in 0..3 :
         mem_read_8(memory, MemAddress(run_obs.n, run_obs.cnt0 + i)).v = ByteOf(last.word, i)

\* 0x01020304 written at the last word of KDATA is still read back after a
\* write to another region
C14_Witness ==
  /\ run_obs.call = "write_32"
  /\ run_obs.n = 4
  /\ run_obs.cnt0 = MEM_DATA_SIZE - 4
  /\ last.word = W(258, 772)
  /\ memory[1] # EmptyMem
  /\ mem_read_32(memory, MemAddress(4, MEM_DATA_SIZE - 4)) = Some(W(258, 772))

-----------------------------------------------------------------------------
(* Loads and stores: programs that store and load in the data, stack and   *)
(* kernel regions, driven by the same commands as Spec.                    *)

\* LUI r1, 0x1000 ; ADDIU r2, r0, -1 ; SW r2, 0(r1) ; SW r2, 4(r1) ;
\* ADDIU r3, r0, 0x1234 ; SB r3, 1(r1)
ProgStoreByte == <<EncI(15, 0, 1, 4096), EncI(9, 0, 2, 65535), EncI(43, 1, 2, 0),
                   EncI(43, 1, 2, 4), EncI(9, 0, 3, 4660), EncI(40, 1, 3, 1)>>
\* the same with SH r3, 0(r1) as the last instruction
ProgStoreHalf == <<EncI(15, 0, 1, 4096), EncI(9, 0, 2, 65535), EncI(43, 1, 2, 0),
                   EncI(43, 1, 2, 4), EncI(9, 0, 3, 4660), EncI(41, 1, 3, 0)>>
\* LUI r1, 0x9000 ; ADDIU r2, r0, 5 ; SW r2, 0(r1) ; LW r3, 0(r1)   (KDATA)
ProgKernelData == <<EncI(15, 0, 1, 36864), EncI(9, 0, 2, 5), EncI(43, 1, 2, 0),
                    EncI(35, 1, 3, 0)>>
\* LUI r1, 0x8000 ; LW r3, 4(r1)   (KTEXT)
ProgKernelText == <<EncI(15, 0, 1, 32768), EncI(35, 1, 3, 4)>>
\* LUI r1, 0x7FF0 ; ADDIU r2, r0, -2 ; SW r2, 8(r1) ; LW r3, 8(r1) ;
\* LW r4, -4(r1) ; SW r2, 0(r0)   (stack, then below the stack, then address 0)
ProgStackStore == <<EncI(15, 0, 1, 32752), EncI(9, 0, 2, 65534), EncI(43, 1, 2, 8),
                    EncI(35, 1, 3, 8), EncI(35, 1, 4, 65532), EncI(43, 0, 2, 0)>>

\* LUI r1, 0x1000 ; ADDIU r2, r0, -1 ; SW r2, 0(r1) ; then the load or store
\* of the given opcode on r2, -4(r1): the word below the data region
ProgOutside(opcode) == <<EncI(15, 0, 1, 4096), EncI(9, 0, 2, 65535), EncI(43, 1, 2, 0),
                         EncI(opcode, 1, 2, 65532)>>

LoadStoreOpcodes == {32, 33, 35, 36, 37, 40, 41, 43}

StorePrograms == {ProgStoreByte, ProgStoreHalf, ProgKernelData, ProgKernelText,
                  ProgStackStore} \cup {ProgOutside(opcode) : opcode \in LoadStoreOpcodes}

StoreInit == Boot({<<FileOf(p)>> : p \in StorePrograms})

StoreSpec == StoreInit /\ [][Next]_vars

LoadOps == {"LB", "LH", "LW", "LBU", "LHU"}
StoreOps == {"SB", "SH", "SW"}

\* EA = (R[rs] + se16(imm)) mod 2^32 of load or store i
EffectiveAddress(i, regs) == u32_add(regs[i.rs], se16(i.imm[2])).v

\* the 32-bit address a lies in one of the five regions
InSomeRegion(a) == \E r \in 1..NRegions : contains_address(r, u32_as_usize(a))

\* the region of an address that lies in one
RegionOf(a) == CHOOSE r \in 1..NRegions : contains_address(r, u32_as_usize(a))

\* the buffers mems with byte b at address a and nothing else changed
WithByte(mems, a, b) ==
  [mems EXCEPT ![RegionOf(a)] =
     SetByte(@, usize_diff(u32_as_usize(a), Regions[RegionOf(a)].start), b)]

\* C15: SB changes exactly the byte at EA to the low byte of R[rt], SH exactly
\* the bytes at EA and EA + 1 to the low halfword of R[rt]; every other byte
\* of memory, the rest of the word at EA..EA+3 included, keeps its value.
C15_NarrowStoreFrame ==
  /\ (Executed({"SB"}) =>
        memory = WithByte(last.mem, EffectiveAddress(LastInstr, last.curr.regs),
                          ByteOf(last.curr.regs[LastInstr.rt], 0)))
  /\ (Executed({"SH"}) =>
        memory = WithByte(WithByte(last.mem, EffectiveAddress(LastInstr, last.curr.regs),
                                   ByteOf(last.curr.regs[LastInstr.rt], 0)),
                          u32_add(EffectiveAddress(LastInstr, last.curr.regs), Small(1)).v,
                          ByteOf(last.curr.regs[LastInstr.rt], 1)))

\* what the code does instead: SB and SH store the masked value as a whole word
NarrowStoreWritesWord ==
  /\ (Executed({"SB"}) =>
        mem_read_32(memory, u32_as_usize(EffectiveAddress(LastInstr, last.curr.regs)))
          = Some(W(0, ByteOf(last.curr.regs[LastInstr.rt], 0))))
  /\ (Executed({"SH"}) =>
        mem_read_32(memory, u32_as_usize(EffectiveAddress(LastInstr, last.curr.regs)))
          = Some(W(0, last.curr.regs[LastInstr.rt][2])))

\* C16: the effective address of a load or store is (R[rs] + se16(imm)) mod
\* 2^32 as an unsigned address, and every such address with its word inside
\* one of the five regions is served, KTEXT and KDATA (bit 31 set) included:
\* SW stores R[rt] there and LW loads the word stored there.
C16_EveryRegionServed ==
  (/\ last.fetched
   /\ LastInstr.op \in {"LW", "SW"}
   /\ InSomeRegion(EffectiveAddress(LastInstr, last.curr.regs))
   /\ InSomeRegion(u32_add(EffectiveAddress(LastInstr, last.curr.regs), Small(3)).v)) =>
    /\ Committed
    /\ (LastInstr.op = "SW" =>
          mem_read_32(memory, u32_as_usize(EffectiveAddress(LastInstr, last.curr.regs)))
            = Some(last.curr.regs[LastInstr.rt]))
    /\ (LastInstr.op = "LW" =>
          Some(curr_state.regs[LastInstr.rt])
            = mem_read_32(last.mem, u32_as_usize(EffectiveAddress(LastInstr, last.curr.regs))))

\* what the code does instead: it serves the addresses with bit 31 clear and
\* aborts on those with bit 31 set
ServedBelowBit31 ==
  (/\ last.fetched
   /\ LastInstr.op \in {"LW", "SW"}
   /\ InSomeRegion(EffectiveAddress(LastInstr, last.curr.regs))
   /\ InSomeRegion(u32_add(EffectiveAddress(LastInstr, last.curr.regs), Small(3)).v)) =>
    IF IsNeg(EffectiveAddress(LastInstr, last.curr.regs)) THEN last.kind = "panic"
    ELSE /\ Committed
         /\ (LastInstr.op = "SW" =>
               mem_read_32(memory, u32_as_usize(EffectiveAddress(LastInstr, last.curr.regs)))
                 = Some(last.curr.regs[LastInstr.rt]))
         /\ (LastInstr.op = "LW" =>
               Some(curr_state.regs[LastInstr.rt])
                 = mem_read_32(last.mem, u32_as_usize(EffectiveAddress(LastInstr, last.curr.regs))))


\* C17: a load or store whose effective address lies outside every region
\* fails the cycle: nothing is committed (both snapshots and memory are as
\* before) and instr_cnt is not incremented.
C17_OutsideAccessAborts ==
  (/\ last.fetched
   /\ LastInstr.op \in LoadOps \cup StoreOps
   /\ ~InSomeRegion(EffectiveAddress(LastInstr, last.curr.regs))) =>
    /\ last.kind = "panic"
    /\ proc = "panicked"
    /\ curr_state = last.curr
    /\ next_state = last.next
    /\ memory = last.mem
    /\ instr_cnt = last.cnt
    /\ run_bit = last.run

\* SW r2, -4(r1) with r1 = 0x10000000 has aborted the fourth cycle
C17_Witness ==
  /\ last.kind = "panic"
  /\ LastInstr.op = "SW"
  /\ last.curr.regs[1] = W(4096, 0)
  /\ EffectiveAddress(LastInstr, last.curr.regs) = W(4095, 65532)
  /\ instr_cnt = 3

-----------------------------------------------------------------------------
(* Arithmetic: one instruction applied to operands of every sign and size. *)
(* A program loads its operands with LUI and ORI and go() runs it to its   *)
(* end.                                                                    *)

\* 0, 1, 2, 7, 0x7FFFFFFF, 0x80000000, 0xFFFFFFF9 (-7), 0xFFFFFFFF (-1)
Operands == {Zero32, Small(1), Small(2), Small(7), W(32767, 65535), W(32768, 0),
             W(65535, 65529), W(65535, 65535)}
\* 1, 0x7FFF, 0x8000 (-32768), 0xFFFF (-1)
Immediates == {1, 32767, 32768, 65535}
\* ADD, ADDU, SUB, SUBU, MULT, MULTU, DIV, DIVU
ArithFuncts == {32, 33, 34, 35, 24, 25, 26, 27}
\* ADDI, ADDIU
ArithOpcodes == {8, 9}

\* LUI r1, a.hi ; ORI r1, r1, a.lo ; LUI r2, b.hi ; ORI r2, r2, b.lo ;
\* then the R-type instruction of the given funct on rd = r3, rs = r1, rt = r2
ProgArithR(funct, a, b) ==
  <<EncI(15, 0, 1, a[1]), EncI(13, 1, 1, a[2]), EncI(15, 0, 2, b[1]),
    EncI(13, 2, 2, b[2]), EncR(1, 2, 3, 0, funct)>>

\* LUI r1, a.hi ; ORI r1, r1, a.lo ; then ADDI or ADDIU r3, r1, imm
ProgArithI(opcode, a, imm) ==
  <<EncI(15, 0, 1, a[1]), EncI(13, 1, 1, a[2]), EncI(opcode, 1, 3, imm)>>

\* SLT, SLTU
CompareFuncts == {42, 43}
\* SLTI, SLTIU
CompareOpcodes == {10, 11}
\* ANDI, ORI, XORI
LogicOpcodes == {12, 13, 14}

\* LUI r8, 0xDEAD ; ORI r8, r8, 0xBEEF
ProgLuiOri == <<EncI(15, 0, 8, 57005), EncI(13, 8, 8, 48879)>>

ArithPrograms ==
  {ProgArithR(funct, a, b) : funct \in ArithFuncts \cup CompareFuncts,
                             a \in Operands, b \in Operands}
    \cup {ProgArithI(opcode, a, imm) :
            opcode \in ArithOpcodes \cup CompareOpcodes \cup LogicOpcodes,
            a \in Operands, imm \in Immediates}
    \cup {ProgLuiOri}

\* a direct call of the public go()
Go ==
  /\ proc = "prompt"
  /\ cmds < MaxCmds
  /\ cmds' = cmds + 1
  /\ UNCHANGED overflow_checks
  /\ go

ArithInit == Boot({<<FileOf(p)>> : p \in ArithPrograms})

ArithNext == Go \/ GoLoop

ArithSpec == ArithInit /\ [][ArithNext]_vars

\* the operands R[rs] and R[rt] of the last cycle's instruction
OperandRs == last.curr.regs[LastInstr.rs]
OperandRt == last.curr.regs[LastInstr.rt]

\* the upper and lower word of the unsigned 64-bit product a * b
ProductHi(a, b) == W(u64_mul(a, b)[1], u64_mul(a, b)[2])
ProductLo(a, b) == W(u64_mul(a, b)[3], u64_mul(a, b)[4])

\* the upper word of the signed 64-bit product: a negative operand stands for
\* its bit pattern less 2^32, which takes the other operand off the upper word
SignedProductHi(a, b) ==
  LET h0 == ProductHi(a, b)
      h1 == IF IsNeg(a) THEN u32_add(h0, Neg32(b)).v ELSE h0
  IN  IF IsNeg(b) THEN u32_add(h1, Neg32(a)).v ELSE h1

\* C18: MULT sets HI:LO to the signed 64-bit product of R[rs] and R[rt] (so
\* 0xFFFFFFFF * 1 gives HI = 0xFFFFFFFF, LO = 0xFFFFFFFF), MULTU to the
\* unsigned 64-bit product.
C18_MultSignedProduct ==
  /\ (Executed({"MULT"}) =>
        /\ curr_state.hi = SignedProductHi(OperandRs, OperandRt)
        /\ curr_state.lo = ProductLo(OperandRs, OperandRt))
  /\ (Executed({"MULTU"}) =>
        /\ curr_state.hi = ProductHi(OperandRs, OperandRt)
        /\ curr_state.lo = ProductLo(OperandRs, OperandRt))

\* what the code does instead: MULT multiplies the zero-extended operands as
\* MULTU does, and aborts in a build with overflow checks from 2^63
MultIsUnsigned ==
  /\ (Executed({"MULT", "MULTU"}) =>
        /\ curr_state.hi = ProductHi(OperandRs, OperandRt)
        /\ curr_state.lo = ProductLo(OperandRs, OperandRt))
  /\ (last.fetched /\ LastInstr.op = "MULT" =>
        (last.kind = "panic" <=>
           overflow_checks /\ IsNeg(ProductHi(OperandRs, OperandRt))))
  /\ (Executed({"MULTU"}) /\ ~IsNeg(OperandRs) /\ OperandRs[1] = 0
        /\ OperandRt[1] = 0 /\ OperandRt[2] < 8 =>
        /\ curr_state.hi = Zero32
        /\ ToInt(curr_state.lo) = ToInt(OperandRs) * ToInt(OperandRt))

\* the magnitude of a signed word, as an unsigned word
Abs32(a) == IF IsNeg(a) THEN Neg32(a) ELSE a

\* the signed quotient a / b, truncated toward zero
SignedQuotient(a, b) ==
  IF IsNeg(a) # IsNeg(b) THEN Neg32(u32_div(Abs32(a), Abs32(b)))
  ELSE u32_div(Abs32(a), Abs32(b))

\* the remainder a - q * b that goes with quotient q
RemainderOf(a, b, q) == u32_add(a, Neg32(ProductLo(q, b))).v

\* C19: with a non-zero divisor DIV sets LO to the signed quotient and HI to
\* the signed remainder of R[rs] / R[rt], DIVU to the unsigned quotient and
\* remainder.
C19_DivQuotientRemainder ==
  /\ (Executed({"DIV"}) /\ OperandRt # Zero32 =>
        /\ curr_state.lo = SignedQuotient(OperandRs, OperandRt)
        /\ curr_state.hi = RemainderOf(OperandRs, OperandRt,
                                       SignedQuotient(OperandRs, OperandRt)))
  /\ (Executed({"DIVU"}) /\ OperandRt # Zero32 =>
        /\ curr_state.lo = u32_div(OperandRs, OperandRt)
        /\ curr_state.hi = RemainderOf(OperandRs, OperandRt,
                                       u32_div(OperandRs, OperandRt)))

\* what the code does instead: DIV and DIVU both leave the unsigned quotient
\* in LO and 0 in HI, and a zero divisor aborts the cycle
DivKeepsUnsignedQuotient ==
  /\ (Executed({"DIV", "DIVU"}) =>
        /\ OperandRt # Zero32
        /\ curr_state.hi = Zero32
        /\ curr_state.lo = u32_div(OperandRs, OperandRt))
  /\ (Executed({"DIV", "DIVU"}) /\ ~IsNeg(OperandRs) /\ ~IsNeg(OperandRt) =>
        ToInt(curr_state.lo) = ToInt(OperandRs) \div ToInt(OperandRt))
  /\ (last.fetched /\ LastInstr.op \in {"DIV", "DIVU"} /\ OperandRt = Zero32 =>
        last.kind = "panic")

AddSubOps == {"ADD", "ADDU", "SUB", "SUBU", "ADDI", "ADDIU"}

\* C20: ADD, ADDU, SUB, SUBU, ADDI and ADDIU are total and wrap modulo 2^32:
\* the cycle commits whatever the operands and the destination holds the
\* wrapped result (0xFFFFFFFF + 1 = 0); ADD is ADDU and SUB is SUBU.
C20_AddSubWrap ==
  last.fetched /\ LastInstr.op \in AddSubOps =>
    /\ Committed
    /\ curr_state.regs[AluDest(LastInstr)] = AluResult(LastInstr, last.curr.regs)

\* what the code does instead: it wraps in a build without overflow checks,
\* and with them aborts the cycle when the addition or subtraction overflows
\* (ADD and ADDU as u32, the others as i32)
AddSubWrapUnchecked ==
  last.fetched /\ LastInstr.op \in AddSubOps =>
    IF last.kind = "panic"
    THEN /\ overflow_checks
         /\ CASE LastInstr.op \in {"ADD", "ADDU"} -> u32_add(OperandRs, OperandRt).ovf
              [] LastInstr.op \in {"SUB", "SUBU"} -> i32_sub(OperandRs, OperandRt).ovf
              [] OTHER -> i32_add(OperandRs, se16(LastInstr.imm[2])).ovf
    ELSE /\ Committed
         /\ curr_state.regs[AluDest(LastInstr)] = AluResult(LastInstr, last.curr.regs)


-----------------------------------------------------------------------------
(* Logical immediates and comparisons, under ArithSpec *)

\* the word the loader has put at index i of the text region
TextWord(i) == mem_read_32(memory, usize_add(MEM_TEXT_START, 4 * i))

\* the program begins with LUI rt, hi ; ORI rt, rt, lo for some rt # 0
StartsWithLuiOri ==
  /\ TextWord(0).k = "Some"
  /\ TextWord(1).k = "Some"
  /\ OpcodeOf(TextWord(0).v) = 15
  /\ OpcodeOf(TextWord(1).v) = 13
  /\ RtOf(TextWord(0).v) # 0
  /\ RtOf(TextWord(1).v) = RtOf(TextWord(0).v)
  /\ RsOf(TextWord(1).v) = RtOf(TextWord(0).v)

\* C21: ANDI, ORI and XORI combine R[rs] with the zero-extended immediate and
\* LUI sets rt to imm << 16 with the low half zero, so that two cycles of
\* LUI rt, hi ; ORI rt, rt, lo with rt # 0 leave R[rt] = (hi << 16) | lo and
\* PC eight bytes on.
C21_LuiOriBuildsWord ==
  /\ (Executed({"ANDI"}) =>
        curr_state.regs[RtOf(last.word)] = u32_and(OperandRs, ImmOf(last.word)))
  /\ (Executed({"ORI"}) =>
        curr_state.regs[RtOf(last.word)] = u32_or(OperandRs, ImmOf(last.word)))
  /\ (Executed({"XORI"}) =>
        curr_state.regs[RtOf(last.word)] = u32_xor(OperandRs, ImmOf(last.word)))
  /\ (Executed({"LUI"}) =>
        curr_state.regs[RtOf(last.word)] = W(last.word[2], 0))
  /\ (StartsWithLuiOri /\ Committed /\ instr_cnt = 2 =>
        /\ curr_state.regs[RtOf(TextWord(0).v)] = W(TextWord(0).v[2], TextWord(1).v[2])
        /\ curr_state.pc = W(64, 8))

\* LUI r8, 0xDEAD ; ORI r8, r8, 0xBEEF has left 0xDEADBEEF in r8 at 0x00400008
C21_Witness ==
  /\ StartsWithLuiOri
  /\ Executed({"ORI"})
  /\ instr_cnt = 2
  /\ curr_state.regs[8] = W(57005, 48879)
  /\ curr_state.pc = W(64, 8)


-----------------------------------------------------------------------------
(* The loader: machines constructed from one or two program files, stored  *)
(* big-endian (as the file format has it) or little-endian, one of them    *)
(* ending inside a word.                                                   *)

BigEndianBytes(w) == <<w[1] \div 256, w[1] % 256, w[2] \div 256, w[2] % 256>>

RECURSIVE BigEndianFile(_)
BigEndianFile(words) ==
  IF words = <<>> THEN <<>> ELSE BigEndianBytes(Head(words)) \o BigEndianFile(Tail(words))

\* ADDIU r8, r0, 5 (0x24080005)
LoadWordsA == <<EncI(9, 0, 8, 5)>>
\* ADDIU r9, r0, 7 ; ADDU r10, r8, r9 (0x24090007, 0x01095021)
LoadWordsB == <<EncI(9, 0, 9, 7), EncR(8, 9, 10, 0, 33)>>
\* ORI r11, r0, 3 ; ORI r12, r0, 4 ; ORI r13, r0, 6
LoadWordsC == <<EncI(13, 0, 11, 3), EncI(13, 0, 12, 4), EncI(13, 0, 13, 6)>>

LoadFiles == {BigEndianFile(LoadWordsA), BigEndianFile(LoadWordsB),
              FileOf(LoadWordsA), FileOf(LoadWordsB), FileOf(LoadWordsC),
              FileOf(LoadWordsA) \o <<9, 0>>}

LoadFileLists == {<<f>> : f \in LoadFiles} \cup {<<f, g>> : f \in LoadFiles, g \in LoadFiles}

LoadInit == Boot(LoadFileLists)

LoadSpec == LoadInit /\ [][DecodeNext]_vars

\* the machine is as construction from the files `filenames` leaves it
ConstructedFrom(filenames) ==
  /\ cmds = 0
  /\ memory = new(filenames).memory

\* the number of complete 4-byte words of a file
WordsOf(file) == Len(file) \div 4

\* word i (from 0) of a file read big-endian, and read little-endian
BigEndianWord(file, i) ==
  W(file[4 * i + 1] * 256 + file[4 * i + 2], file[4 * i + 3] * 256 + file[4 * i + 4])
LittleEndianWord(file, i) ==
  W(file[4 * i + 4] * 256 + file[4 * i + 3], file[4 * i + 2] * 256 + file[4 * i + 1])

\* C22: after the loader has loaded a program file, read_32 at 0x00400000 + 4i
\* returns complete word i of the file read big-endian (first file byte most
\* significant), and the PC of both snapshots is 0x00400000.
C22_LoaderBigEndian ==
  \A fl \in LoadFileLists :
    Len(fl) = 1 /\ ConstructedFrom(fl) =>
      /\ \A i \in 0..(WordsOf(fl[1]) - 1) : TextWord(i) = Some(BigEndianWord(fl[1], i))
      /\ curr_state.pc = W(64, 0)
      /\ next_state.pc = W(64, 0)

\* what the code does instead: the file bytes go to memory in file order and
\* read_32 reads them little-endian (first file byte least significant)
LoaderKeepsByteOrder ==
  \A fl \in LoadFileLists :
    Len(fl) = 1 /\ ConstructedFrom(fl) =>
      /\ \A i \in 0..(WordsOf(fl[1]) - 1) : TextWord(i) = Some(LittleEndianWord(fl[1], i))
      /\ curr_state.pc = W(64, 0)
      /\ next_state.pc = W(64, 0)

\* the files of a list are made of complete words
WholeWords(fl) == \A k \in 1..Len(fl) : Len(fl[k]) % 4 = 0

\* the word, in either byte order, that is word i of a file
FileWord(file, i) == {Some(BigEndianWord(file, i)), Some(LittleEndianWord(file, i))}

\* C23: a machine constructed from two program files holds the words of the
\* first from 0x00400000 and the words of the second right after them: no
\* word of the first file is overwritten by the second.
C23_FilesConcatenated ==
  \A fl \in LoadFileLists :
    Len(fl) = 2 /\ WholeWords(fl) /\ ConstructedFrom(fl) =>
      /\ \A i \in 0..(WordsOf(fl[1]) - 1) : TextWord(i) \in FileWord(fl[1], i)
      /\ \A i \in 0..(WordsOf(fl[2]) - 1) :
           TextWord(WordsOf(fl[1]) + i) \in FileWord(fl[2], i)

\* what the code does instead: every file is loaded from 0x00400000, so the
\* second file lies over the first and only the words of the first file
\* beyond the length of the second survive
FilesOverlaid ==
  \A fl \in LoadFileLists :
    Len(fl) = 2 /\ WholeWords(fl) /\ ConstructedFrom(fl) =>
      /\ \A i \in 0..(WordsOf(fl[2]) - 1) : TextWord(i) = Some(LittleEndianWord(fl[2], i))
      /\ \A i \in WordsOf(fl[2])..(WordsOf(fl[1]) - 1) :
           TextWord(i) = Some(LittleEndianWord(fl[1], i))


-----------------------------------------------------------------------------
(* The command lines of two tokens, under Spec *)

\* C24: the prompt obeys `run N`, `high V` and `low V` given as two tokens:
\* `run 3` on a running machine starts a run of 3 cycles, `high 5` sets HI of
\* both snapshots to 5 and `low 6` sets LO of both snapshots to 6.
C24_TwoTokenCommands ==
  [][/\ (proc = "prompt" /\ run_bit /\ prompt(L_run3two) =>
           run_obs'.call = "run" /\ run_obs'.n = 3)
     /\ (proc = "prompt" /\ prompt(L_high5two) =>
           curr_state'.hi = Small(5) /\ next_state'.hi = Small(5))
     /\ (proc = "prompt" /\ prompt(L_low6two) =>
           curr_state'.lo = Small(6) /\ next_state'.lo = Small(6))]_vars

\* what the code does instead: it asks for three tokens, so the two-token
\* lines are rejected and leave the machine alone, while `run 2 x`,
\* `high 3 x` and `low 4 x` are obeyed
ThreeTokensWanted ==
  [][/\ (proc = "prompt" /\ (prompt(L_run3two) \/ prompt(L_high5two) \/ prompt(L_low6two)) =>
           UNCHANGED Machine /\ proc' = "prompt" /\ run_obs' = NoRun)
     /\ (proc = "prompt" /\ run_bit /\ prompt(L_run2) =>
           run_obs'.call = "run" /\ run_obs'.n = 2)
     /\ (proc = "prompt" /\ prompt(L_high) =>
           curr_state'.hi = Small(3) /\ next_state'.hi = Small(3))
     /\ (proc = "prompt" /\ prompt(L_low) =>
           curr_state'.lo = Small(4) /\ next_state'.lo = Small(4))]_vars


-----------------------------------------------------------------------------
(* Accesses at the end of a region, under MemSpec *)

\* the offsets of the last four bytes of a region
EdgeOffsets(r) == (Regions[r].size - 4)..(Regions[r].size - 1)

\* C25: read_32, read_16 and write_32 complete for every address the region
\* contains, the last three bytes of the region included: no write of the
\* run has faulted and no read at the end of a region would.
C25_EdgeAccessCompletes ==
  /\ proc # "panicked"
  /\ \A r \in 1..NRegions : \A off \in EdgeOffsets(r) :
       contains_address(r, MemAddress(r, off)) =>
         /\ read_32(r, memory[r], MemAddress(r, off)).k = "Some"
         /\ read_16(r, memory[r], MemAddress(r, off)).k = "Some"
         /\ ~write_32(r, memory[r], MemAddress(r, off), Zero32).panic

\* what the code does instead: the addresses are contained, and an access
\* indexes the buffer at offset + 3 (read_32, write_32) or offset + 1
\* (read_16) without a test, which faults when that is beyond the buffer
EdgeAccessFaults ==
  \A r \in 1..NRegions : \A off \in EdgeOffsets(r) :
    /\ contains_address(r, MemAddress(r, off))
    /\ read_32(r, memory[r], MemAddress(r, off)).k = "Panic" <=> off > Regions[r].size - 4
    /\ read_16(r, memory[r], MemAddress(r, off)).k = "Panic" <=> off = Regions[r].size - 1
    /\ write_32(r, memory[r], MemAddress(r, off), Zero32).panic <=> off > Regions[r].size - 4


-----------------------------------------------------------------------------
(* Comparisons, under ArithSpec *)

\* 1 or 0 for a truth value
Flag(b) == IF b THEN Small(1) ELSE Zero32

\* a word with its top bit flipped, as a signed integer: the order of these
\* integers is the unsigned order of the words
Biased(w) == int32(W((w[1] + H15) % H16, w[2]))

\* C26: SLT and SLTI compare as signed 32-bit integers (0xFFFFFFFF < 1), SLTU
\* compares R[rs] and R[rt] as unsigned, SLTIU compares R[rs] as unsigned
\* against the sign-extended immediate taken as unsigned; the destination
\* receives exactly 1 or 0.
C26_SetOnLessThan ==
  /\ (Executed({"SLT"}) =>
        curr_state.regs[RdOf(last.word)] = Flag(int32(OperandRs) < int32(OperandRt)))
  /\ (Executed({"SLTU"}) =>
        curr_state.regs[RdOf(last.word)] = Flag(Biased(OperandRs) < Biased(OperandRt)))
  /\ (Executed({"SLTI"}) =>
        curr_state.regs[RtOf(last.word)] =
          Flag(int32(OperandRs) < int32(se16(last.word[2]))))
  /\ (Executed({"SLTIU"}) =>
        curr_state.regs[RtOf(last.word)] =
          Flag(Biased(OperandRs) < Biased(se16(last.word[2]))))

\* SLT r3, r1, r2 with r1 = 0xFFFFFFFF and r2 = 1 has set r3 to 1
C26_Witness ==
  /\ Executed({"SLT"})
  /\ OperandRs = W(65535, 65535)
  /\ OperandRt = Small(1)
  /\ curr_state.regs[3] = Small(1)


-----------------------------------------------------------------------------
(* The two snapshots between commands, under Spec *)

\* C27: whenever the prompt waits for a command (after construction and after
\* any go, run, step, input, high or low) the two snapshots are identical:
\* PC, registers, HI and LO of curr_state and next_state agree.
C27_SnapshotsAgreeAtPrompt ==
  proc = "prompt" =>
    /\ curr_state.pc = next_state.pc
    /\ curr_state.regs = next_state.regs
    /\ curr_state.hi = next_state.hi
    /\ curr_state.lo = next_state.lo

\* `input 2 10` has been obeyed on a machine that has executed cycles
C27_Witness ==
  /\ proc = "prompt"
  /\ cmds = 2
  /\ run_obs = NoRun
  /\ instr_cnt > 0
  /\ curr_state.regs[2] = Small(10)
  /\ curr_state.pc # W(64, 0)


-----------------------------------------------------------------------------
(* The frame of an instruction: every program of the other specifications, *)
(* and two that move values through HI, LO and memory, run by go().        *)

\* r1 = 0x10000000, r2 = -2, then HI and LO written, read, and overwritten by
\* a product and a quotient
ProgFrameHiLo ==
  << EncI(15, 0, 1, 4096), EncI(9, 0, 2, 65534),
     EncR(2, 0, 0, 0, 17),      \* MTHI r2
     EncR(1, 0, 0, 0, 19),      \* MTLO r1
     EncR(0, 0, 4, 0, 16),      \* MFHI r4
     EncR(0, 0, 5, 0, 18),      \* MFLO r5
     EncR(1, 2, 0, 0, 25),      \* MULTU r1, r2
     EncR(2, 1, 0, 0, 27),      \* DIVU r2, r1
     EncR(4, 5, 6, 0, 42),      \* SLT  r6, r4, r5
     EncI(12, 2, 7, 255) >>     \* ANDI r7, r2, 0xFF

\* r1 = 0x10000000, r2 = 0x8182FFFE, stored and loaded back in every width
ProgFrameLoads ==
  << EncI(15, 0, 1, 4096), EncI(15, 0, 2, 33154), EncI(13, 2, 2, 65534),
     EncI(43, 1, 2, 0),         \* SW  r2, 0(r1)
     EncI(32, 1, 3, 3),         \* LB  r3, 3(r1)
     EncI(33, 1, 4, 2),         \* LH  r4, 2(r1)
     EncI(35, 1, 5, 0),         \* LW  r5, 0(r1)
     EncI(36, 1, 6, 3),         \* LBU r6, 3(r1)
     EncI(37, 1, 7, 2),         \* LHU r7, 2(r1)
     EncI(40, 1, 2, 8),         \* SB  r2, 8(r1)
     EncI(41, 1, 2, 12) >>      \* SH  r2, 12(r1)

FrameFileLists ==
  FileLists \cup DecodeFileLists
    \cup {<<FileOf(p)>> : p \in StorePrograms \cup {ProgFrameHiLo, ProgFrameLoads}}

FrameInit == Boot(FrameFileLists)

FrameSpec == FrameInit /\ [][ArithNext]_vars

\* instructions that write one general register
RegisterOps == AluOps \cup LoadOps \cup
               {"SLT", "SLTU", "SLTI", "SLTIU", "ANDI", "ORI", "XORI", "LUI", "MFHI", "MFLO"}
\* instructions that write HI or LO
HiLoOps == {"MULT", "MULTU", "DIV", "DIVU", "MTHI", "MTLO"}

\* the cycle has set the PC to the PC before it plus 4
PcAdvanced == curr_state.pc = u32_add(last.curr.pc, Small(4)).v

\* the registers other than register d are as before the cycle
RegsKeptBut(d) == \A i \in 0..(MIPS_REGS - 1) : i # d => curr_state.regs[i] = last.curr.regs[i]

\* C28: a committed instruction that is no jump or branch changes its
\* destination and the PC only.  One that writes a general register (ALU,
\* shift, MFHI, MFLO, immediate ALU, load) leaves the other registers, HI, LO
\* and memory alone and sets PC to PC + 4; MULT, MULTU, DIV, DIVU, MTHI and
\* MTLO leave the registers and memory alone (MTHI also LO, MTLO also HI);
\* a store leaves the registers, HI and LO alone; and memory changes in no
\* cycle but that of an SB, SH or SW.
C28_InstructionFrame ==
  /\ (Executed(RegisterOps) =>
        /\ RegsKeptBut(AluDest(LastInstr))
        /\ curr_state.hi = last.curr.hi
        /\ curr_state.lo = last.curr.lo
        /\ memory = last.mem
        /\ run_bit = last.run
        /\ PcAdvanced)
  /\ (Executed(HiLoOps) =>
        /\ curr_state.regs = last.curr.regs
        /\ (LastInstr.op = "MTHI" => curr_state.lo = last.curr.lo)
        /\ (LastInstr.op = "MTLO" => curr_state.hi = last.curr.hi)
        /\ memory = last.mem
        /\ run_bit = last.run
        /\ PcAdvanced)
  /\ (Executed(StoreOps) =>
        /\ curr_state.regs = last.curr.regs
        /\ curr_state.hi = last.curr.hi
        /\ curr_state.lo = last.curr.lo
        /\ run_bit = last.run
        /\ PcAdvanced)
  /\ (last.kind # "none" /\ ~Executed(StoreOps) => memory = last.mem)

\* MFHI r4 has copied HI = 0xFFFFFFFE into r4 and left LO = 0x10000000, the
\* other registers and memory alone
C28_Witness ==
  /\ Executed({"MFHI"})
  /\ curr_state.regs[4] = W(65535, 65534)
  /\ last.curr.regs[4] = Zero32
  /\ curr_state.lo = W(4096, 0)
  /\ curr_state.regs[2] = W(65535, 65534)
  /\ instr_cnt = 5


-----------------------------------------------------------------------------
(* Alignment of the PC, under Spec *)

\* the PC of a snapshot is a multiple of 4
AlignedPc(st) == st.pc[2] % 4 = 0

\* C29: the PC starts at 0x00400000, a multiple of 4, and every step other
\* than the commit of a JR or JALR takes an aligned PC to an aligned PC:
\* PC + 4, branch targets and jump targets keep the alignment.
C29_PcStaysAligned ==
  /\ AlignedPc(curr_state)
  /\ [][(/\ AlignedPc(curr_state)
         /\ ~(last'.kind = "commit" /\ parse_instr(last'.word).op \in {"JR", "JALR"}))
        => AlignedPc(curr_state')]_vars

\* a jump or a taken branch has committed, and the PC it left is aligned
C29_Witness ==
  /\ Executed(BranchOps \cup {"J", "JAL"})
  /\ curr_state.pc # u32_add(last.curr.pc, Small(4)).v
  /\ AlignedPc(curr_state)
  /\ instr_cnt >= 2


-----------------------------------------------------------------------------
(* Division by zero, under ArithSpec *)

\* C30: DIV or DIVU with R[rt] = 0 does not commit: the cycle fails, HI and
\* LO (and the rest of both snapshots) are as before and instr_cnt is not
\* incremented.
C30_DivideByZeroAborts ==
  (last.fetched /\ LastInstr.op \in {"DIV", "DIVU"} /\ OperandRt = Zero32) =>
    /\ last.kind = "panic"
    /\ proc = "panicked"
    /\ curr_state = last.curr
    /\ next_state = last.next
    /\ curr_state.hi = Zero32
    /\ curr_state.lo = Zero32
    /\ memory = last.mem
    /\ instr_cnt = last.cnt

\* DIV r1, r2 with r1 = 7 and r2 = 0 has aborted the fifth cycle
C30_Witness ==
  /\ last.kind = "panic"
  /\ LastInstr.op = "DIV"
  /\ OperandRs = Small(7)
  /\ OperandRt = Zero32
  /\ instr_cnt = 4

====
